---- MODULE Spec2Model ----
(***************************************************************************)
(* The host runtime of mydia_p2p_core (native/mydia_p2p_core/src/lib.rs):  *)
(* the event loop of one host, its connection registry, its two pending    *)
(* tables, the per-connection tasks, the path-type monitor and the         *)
(* server-push (HLS) framing, together with the remote peers that call in. *)
(*                                                                         *)
(* The host under study is the "local" host.  Remote peers run the same    *)
(* client code (handle_send_request, handle_send_hls_request) against it.  *)
(* Time is abstracted: a timer may fire at any moment after it was armed.  *)
(***************************************************************************)
EXTENDS Integers, Sequences, FiniteSets, TLC

(* ------------------------------------------------------------------ *)
(* Bounds of the model                                                 *)
(* ------------------------------------------------------------------ *)
MaxConns == 2
MaxStreams == 2
MaxCmds == 2
MaxPathChanges == 2

(* ------------------------------------------------------------------ *)
(* Values                                                              *)
(* ------------------------------------------------------------------ *)
Peers == {"p1", "p2"}

\* The message of the synthetic timeout response, Error("Request timeout").
RequestTimeoutMsg == 1

UnitVariants == {"Ping", "Pong"}

\* The variant name that serde writes in front of (or instead of) the payload.
VariantTag ==
  [Ping |-> 1, Pong |-> 2, Pairing |-> 3, HlsStream |-> 4, HlsHeader |-> 5,
   Custom |-> 6, Error |-> 7]

RequestVariants == {"Ping", "Pairing", "HlsStream", "Custom"}
ResponseVariants == {"Pong", "Pairing", "HlsHeader", "Custom", "Error"}

Msg(v, b) == [variant |-> v, body |-> b]
NoMsg == Msg("None", 0)
DecodeError == Msg("DecodeError", 0)
Pong == Msg("Pong", 0)
TimeoutResponse == Msg("Error", RequestTimeoutMsg)

\* serde_cbor::to_vec of a request or response value.  The payload of Custom
\* is a byte vector, written as its length and its bytes.
Encode(m) ==
  IF m.variant = "Custom"
    THEN <<VariantTag[m.variant], Len(m.body)>> \o m.body
  ELSE IF m.variant \in UnitVariants
    THEN <<VariantTag[m.variant]>>
    ELSE <<VariantTag[m.variant], m.body>>

\* serde_cbor::from_slice into the enum whose variants are `variants`.
Decode(bytes, variants) ==
  IF Len(bytes) = 1
       /\ \E v \in variants \cap UnitVariants : VariantTag[v] = bytes[1]
    THEN Msg(CHOOSE v \in variants \cap UnitVariants : VariantTag[v] = bytes[1], 0)
  ELSE IF Len(bytes) >= 2
       /\ "Custom" \in variants
       /\ VariantTag["Custom"] = bytes[1]
    THEN IF bytes[2] = Len(bytes) - 2
           THEN Msg("Custom", SubSeq(bytes, 3, Len(bytes)))
           ELSE DecodeError
  ELSE IF Len(bytes) = 2
       /\ \E v \in variants \ UnitVariants : VariantTag[v] = bytes[1]
    THEN Msg(CHOOSE v \in variants \ UnitVariants : VariantTag[v] = bytes[1], bytes[2])
  ELSE DecodeError

\* The size limit of the single-shot reads.  It is 64 * 1024 bytes in the
\* source; the model's frames are a few bytes long and its limit is scaled to
\* them.  Only the comparison of a frame's length with the limit matters.
ReadLimit == 8

read_to_end_unbounded(bytes, limit) == [ok |-> TRUE, data |-> bytes]

\* RecvStream::read_to_end(limit) on a stream the peer has finished: the
\* bytes, or an error when there are more than `limit` of them.
read_to_end(bytes, limit) ==
  IF Len(bytes) > limit THEN [ok |-> FALSE, data |-> <<>>] ELSE [ok |-> TRUE, data |-> bytes]

\* What remote peers put on a request stream: three well-formed requests and
\* one frame that is no request at all.
ClientFrames ==
  {Encode(Msg("Ping", 0)), Encode(Msg("Pairing", 1)), Encode(Msg("HlsStream", 1)),
   <<255>>}

\* What the local embedder answers request `id` with: the payload names the
\* request it was produced for.
EmbedderResponses(id) == {Msg("Pairing", id)}

\* Textual peer addresses handed to Dial: the full address blob of a peer
\* (JSON, leading '{'), the bare node id of a peer, and text that is neither.
DialAddrs ==
  [form : {"blob"}, id : Peers]
    \cup {[form |-> "bare", id |-> "p2"], [form |-> "garbage", id |-> "p1"]}

endpoint_addr_from_json_any(a) == [ok |-> TRUE, id |-> a.id]

\* serde_json::from_str::<EndpointAddr>.
endpoint_addr_from_json(a) ==
  IF a.form = "blob" THEN [ok |-> TRUE, id |-> a.id] ELSE [ok |-> FALSE, id |-> a.id]

PathSets == SUBSET {"ip", "relay"}

\* PeerConnectionType::from_connection.
from_connection(paths) ==
  IF paths = {} THEN "None"
  ELSE IF "ip" \in paths /\ "relay" \in paths THEN "Mixed"
  ELSE IF "ip" \in paths THEN "Direct"
  ELSE "Relay"

VARIABLES
  loopPc,            \* where run_event_loop is
  endpointOpen,      \* the endpoint still yields incoming connections
  relay_connected,   \* the flag of the same name
  cmdOpen,           \* some Host handle (a command sender) is alive
  cmdq,              \* the command channel
  cmdsIssued,        \* commands sent so far
  lastStats,         \* the last GetNetworkStats reply
  connected_peers,   \* the registry: a set of <<peer id, connection>>
  conns,             \* every connection made so far
  streams,           \* every bi-stream a remote peer opened to this host
  pending_responses, \* <<request_id, stream whose reply task holds the receiver>>
  hls_streams,       \* <<stream_id, stream whose send-half is stored>>
  nextId,            \* stands for uuid::Uuid::new_v4
  events,            \* everything sent on the event channel, in order
  pathChanges,       \* how often the transport has changed a path list
  hlsOp,             \* the server-push command the loop is in the middle of
  hlsCalls,          \* the embedder's server-push calls so far, with results
  replies,           \* what the Host methods with a reply have returned, in order
  outReq,            \* the outbound request the loop is awaiting, if any
  evRead,            \* how many events the embedder has taken off the channel
  logged,            \* how many calls of ElixirLogLayer::on_event have returned
  reader_tasks,  \* how many chunk reader tasks handle_send_hls_request has spawned
  keypair_file,  \* the file at keypair_path
  hosts,  \* what the calls of Host::new have returned, in order
  codec,  \* a value on its way through serde_cbor::to_vec and from_slice
  LOG_TX   \* the host whose event sender the static LOG_TX holds (0: not set)

loopVars == <<loopPc, endpointOpen, relay_connected>>
cmdVars == <<cmdOpen, cmdq, cmdsIssued, lastStats>>
regVars == <<connected_peers, conns, pathChanges>>
reqVars == <<streams, pending_responses, hls_streams, nextId>>

hlsVars == <<hlsOp, hlsCalls>>
hostVars == <<replies, outReq, evRead, logged, reader_tasks, keypair_file, hosts, codec, LOG_TX>>

vars == <<loopVars, cmdVars, regVars, reqVars, events, hlsVars, hostVars>>

Event(t, p, c, ct, id, s) ==
  [type |-> t, peer |-> p, conn |-> c, ctype |-> ct, id |-> id, stream |-> s]

\* mpsc::channel::<Event>(100).
EventCapacity == 100

\* The events still in the channel: sent and not yet taken by the embedder.
InChannel == Len(events) - evRead

\* event_tx.send(e).await, which completes only when the channel has room.
Emit(e) == InChannel < EventCapacity /\ events' = Append(events, e)

TrySendAlways(q, e) == Append(q, e)

\* event_tx.try_send(e): e is dropped when the channel is full.
TrySend(q, e) == IF Len(q) - evRead < EventCapacity THEN Append(q, e) ELSE q

ReadyEvent == Event("Ready", "-", 0, "None", 0, 0)

\* Event::Log as ElixirLogLayer::on_event builds it; id stands for the message.
LogEvent(level, id) == Event("Log", "-", 0, level, id, 0)

\* tracing::error!("Failed to bind iroh endpoint").
BindErrorLog == LogEvent("error", 1)

\* tracing::warn!("Failed to read request from {}: {}", peer_id, e).
ReadWarning == LogEvent("warn", 2)

\* tracing::warn!("Failed to decode request from {}: {}", peer_id, e).
DecodeWarning == LogEvent("warn", 3)

\* What a Host method hands back to its caller.
Reply(k, ok, tag, id, m) == [kind |-> k, ok |-> ok, tag |-> tag, id |-> id, msg |-> m]

\* The loop is in no server-push command.
NoOp == [kind |-> "none", stream |-> 0, bufs |-> <<>>, call |-> 0]

\* The loop is awaiting no outbound request.
NoOut == [kind |-> "none", conn |-> 0, frame |-> <<>>, answered |-> FALSE, answer |-> <<>>]

(* ------------------------------------------------------------------ *)
(* Connection registry                                                 *)
(* ------------------------------------------------------------------ *)
RegistryInsertAppend(reg, p, c) == reg \cup {<<p, c>>}

\* HashMap::insert: the entry of the same key, if any, is replaced.
RegistryInsert(reg, p, c) == {e \in reg : e[1] # p} \cup {<<p, c>>}

NewConn(p, paths) ==
  [peer |-> p, open |-> TRUE, paths |-> paths, task |-> "run",
   monPc |-> "start", monCur |-> "None", monLeft |-> 0]

\* The part accept and dial share: insert, emit Connected, spawn the
\* connection task and the monitor.
Register(p, paths) ==
  LET c == Len(conns) + 1 IN
  /\ conns' = Append(conns, NewConn(p, paths))
  /\ connected_peers' = RegistryInsert(connected_peers, p, c)
  /\ Emit(Event("Connected", p, c, from_connection(paths), 0, 0))

(* ------------------------------------------------------------------ *)
(* Start of the event loop                                             *)
(* ------------------------------------------------------------------ *)
\* struct NetworkStats: the two fields the loop's state decides.
NetworkStats(n, relay) == [connected_peers |-> n, relay_connected |-> relay]

\* NetworkStats::default().
NoStats == NetworkStats(0, FALSE)

\* No value is being encoded or decoded.
NoCodec == [typ |-> "none", stage |-> "none", value |-> Msg("None", <<>>),
            bytes |-> <<>>, decoded |-> Msg("None", <<>>)]

\* The file at keypair_path: absent, or its bytes.
NoFile == [exists |-> FALSE, bytes |-> <<>>]

File(bytes) == [exists |-> TRUE, bytes |-> bytes]

IdleHost ==
  /\ cmdOpen = TRUE
  /\ cmdq = <<>>
  /\ cmdsIssued = 0
  /\ lastStats = NoStats
  /\ connected_peers = {}
  /\ conns = <<>>
  /\ pathChanges = 0
  /\ streams = <<>>
  /\ pending_responses = {}
  /\ hls_streams = {}
  /\ nextId = 1
  /\ hlsOp = NoOp
  /\ hlsCalls = <<>>
  /\ replies = <<>>
  /\ outReq = NoOut
  /\ evRead = 0
  /\ logged = 0
  /\ reader_tasks = 0
  /\ hosts = <<>>

Idle ==
  /\ IdleHost
  /\ keypair_file = NoFile
  /\ codec = NoCodec

\* Host::new has spawned the loop's thread.
Init ==
  /\ loopPc = "bind"
  /\ endpointOpen = FALSE
  /\ relay_connected = FALSE
  /\ events = <<>>
  /\ LOG_TX = 0
  /\ Idle

\* The replies of the commands in q when the loop drops the command receiver
\* with them still queued: each one-shot sender is dropped, so dial sees
\* "recv_failed" and get_node_addr unwrap_or_default()s to the empty string.
RECURSIVE Dropped(_)
Dropped(q) ==
  IF q = <<>> THEN <<>>
  ELSE LET c == Head(q) IN
    (IF c.kind = "Dial" THEN <<Reply("Dial", FALSE, "recv_failed", c.addr.id, NoMsg)>>
     ELSE IF c.kind = "GetNodeAddr" THEN <<Reply("GetNodeAddr", TRUE, "", "-", NoMsg)>>
     ELSE IF c.kind \in {"SendRequest", "SendHlsRequest"}
       THEN <<Reply(c.kind, FALSE, "recv_failed", c.addr.id, NoMsg)>>
     ELSE <<>>)
    \o Dropped(Tail(q))

init_tracing_replaces(h) == LOG_TX' = h

\* init_tracing called by the loop of host h: LOG_TX.set(event_tx) takes
\* effect only if LOG_TX is still empty.
init_tracing(h) == LOG_TX' = IF LOG_TX = 0 THEN h ELSE LOG_TX

BindKeepsGoing ==
  /\ loopPc = "bind"
  /\ loopPc' = "relay_wait"
  /\ \/ /\ endpointOpen' = TRUE
        /\ UNCHANGED <<events, logged>>
     \/ /\ endpointOpen' = FALSE
        /\ events' = TrySend(events, BindErrorLog)
        /\ logged' = logged + 1
  /\ init_tracing(1)
  /\ UNCHANGED <<codec, hosts, keypair_file, reader_tasks, cmdq, replies, outReq, evRead, hlsVars, relay_connected, cmdOpen,
                 cmdsIssued, lastStats, regVars, reqVars>>

\* The first lines of run_event_loop of the host modelled here, host 1 of its
\* process: init_tracing, then builder.bind(); on failure the error is logged
\* and the loop returns, which drops cmd_rx and whatever is queued in it.
Bind ==
  /\ loopPc = "bind"
  /\ \/ /\ loopPc' = "relay_wait"
        /\ endpointOpen' = TRUE
        /\ UNCHANGED <<cmdq, replies, events, logged>>
     \/ /\ loopPc' = "terminated"
        /\ endpointOpen' = FALSE
        /\ events' = TrySend(events, BindErrorLog)
        /\ logged' = logged + 1
        /\ cmdq' = <<>>
        /\ replies' = replies \o Dropped(cmdq)
  /\ init_tracing(1)
  /\ UNCHANGED <<codec, hosts, keypair_file, reader_tasks, outReq, evRead, hlsVars, relay_connected, cmdOpen, cmdsIssued,
                 lastStats, regVars, reqVars>>

RelayWaitReadyFirst ==
  /\ loopPc = "relay_wait"
  /\ \E online \in BOOLEAN :
       /\ relay_connected' = online
       /\ events' =
            Append(events, ReadyEvent)
            \o (IF online
                  THEN <<Event("RelayConnected", "-", 0, "None", 0, 0)>>
                  ELSE <<>>)
  /\ loopPc' = "select"
  /\ UNCHANGED <<hostVars, hlsVars, endpointOpen, cmdVars, regVars, reqVars>>

\* timeout(30 s, endpoint.online()), then Ready.
RelayWait ==
  /\ loopPc = "relay_wait"
  /\ \E online \in BOOLEAN :
       /\ relay_connected' = online
       /\ events' =
            (IF online
               THEN Append(events, Event("RelayConnected", "-", 0, "None", 0, 0))
               ELSE events)
            \o <<ReadyEvent>>
  /\ loopPc' = "select"
  /\ UNCHANGED <<hostVars, hlsVars, endpointOpen, cmdVars, regVars, reqVars>>

(* ------------------------------------------------------------------ *)
(* select!: the accept branch                                          *)
(* ------------------------------------------------------------------ *)
AcceptWith(pathChoices) ==
  /\ loopPc = "select"
  /\ endpointOpen
  /\ Len(conns) < MaxConns
  /\ \E p \in Peers, paths \in pathChoices : Register(p, paths)
  /\ UNCHANGED <<hostVars, hlsVars, loopVars, cmdVars, reqVars, pathChanges>>

Accept == AcceptWith({{"relay"}})

(* ------------------------------------------------------------------ *)
(* The embedder side of the command channel: the Host methods         *)
(* ------------------------------------------------------------------ *)
CommandCapacity == 32

NoAddr == [form |-> "none", id |-> "p1"]
Cmd(k, a, id, r) ==
  [kind |-> k, addr |-> a, id |-> id, resp |-> r, data |-> <<>>, call |-> 0]

Enqueue(c) ==
  /\ cmdOpen
  /\ loopPc # "terminated"
  /\ cmdsIssued < MaxCmds
  /\ Len(cmdq) < CommandCapacity
  /\ cmdq' = Append(cmdq, c)
  /\ cmdsIssued' = cmdsIssued + 1

\* Request ids the embedder has been told of.
KnownIds ==
  {events[i].id : i \in {j \in 1..Len(events) : events[j].type = "RequestReceived"}}

\* blocking_send on a channel whose receiver the loop has dropped: the
\* method returns r at once.
SendFails(r) ==
  /\ cmdOpen
  /\ loopPc = "terminated"
  /\ cmdsIssued < MaxCmds
  /\ cmdsIssued' = cmdsIssued + 1
  /\ replies' = Append(replies, r)
  /\ UNCHANGED cmdq

\* Host::dial; the reply of a queued Dial is appended by the loop.
HostDial ==
  /\ \E a \in DialAddrs :
       \/ Enqueue(Cmd("Dial", a, 0, NoMsg)) /\ UNCHANGED replies
       \/ SendFails(Reply("Dial", FALSE, "send_failed", a.id, NoMsg))
  /\ UNCHANGED <<LOG_TX, codec, hosts, keypair_file, reader_tasks, outReq, evRead, logged, hlsVars, loopVars, cmdOpen, lastStats, regVars,
                 reqVars, events>>

\* send_response with an id the embedder was told of, or with one it was not.
HostSendResponse ==
  /\ \E id \in KnownIds \cup {0} :
       \E r \in EmbedderResponses(id) : Enqueue(Cmd("SendResponse", NoAddr, id, r))
  /\ UNCHANGED <<hostVars, hlsVars, loopVars, cmdOpen, lastStats, regVars, reqVars, events>>

HostGetNetworkStats ==
  /\ Enqueue(Cmd("GetNetworkStats", NoAddr, 0, NoMsg))
  /\ UNCHANGED <<hostVars, hlsVars, loopVars, cmdOpen, lastStats, regVars, reqVars, events>>

\* Every Host handle is dropped: the command channel closes.
HostDrop ==
  /\ cmdOpen
  /\ cmdOpen' = FALSE
  /\ UNCHANGED <<hostVars, hlsVars, loopVars, cmdq, cmdsIssued, lastStats, regVars, reqVars,
                 events>>

(* ------------------------------------------------------------------ *)
(* select!: the command branch                                         *)
(* ------------------------------------------------------------------ *)
ReceiveWhileAwaiting(k) ==
  /\ loopPc \in {"select", "request"}
  /\ cmdq # <<>>
  /\ Head(cmdq).kind = k
  /\ cmdq' = Tail(cmdq)

\* cmd_rx.recv() yields a command of kind k.
Receive(k) ==
  /\ loopPc = "select"
  /\ cmdq # <<>>
  /\ Head(cmdq).kind = k
  /\ cmdq' = Tail(cmdq)

\* Command::Dial: handle_dial, then reply.send(result).
handle_dial ==
  /\ Receive("Dial")
  /\ LET addr == endpoint_addr_from_json(Head(cmdq).addr) IN
       \/ /\ addr.ok
          /\ Len(conns) < MaxConns
          /\ Register(addr.id, {"relay"})
          /\ replies' = Append(replies, Reply("Dial", TRUE, "ok", addr.id, NoMsg))
          /\ UNCHANGED pathChanges
       \/ \* endpoint_addr_from_json(..)? returns the decoding error
          /\ ~addr.ok
          /\ replies' = Append(replies,
               Reply("Dial", FALSE, "Invalid EndpointAddr JSON", addr.id, NoMsg))
          /\ UNCHANGED <<regVars, events>>
       \/ \* endpoint.connect(..).await fails
          /\ addr.ok
          /\ replies' = Append(replies,
               Reply("Dial", FALSE, "Failed to connect", addr.id, NoMsg))
          /\ UNCHANGED <<regVars, events>>
  /\ UNCHANGED <<LOG_TX, codec, hosts, keypair_file, reader_tasks, outReq, evRead, logged, hlsVars, loopVars, cmdOpen, cmdsIssued, lastStats,
                 reqVars>>

PendingTakeOrSome(table, id) ==
  IF \E e \in table : e[1] = id THEN {e \in table : e[1] = id}
  ELSE IF table = {} THEN {} ELSE {CHOOSE e \in table : TRUE}

PendingTakeAny(table, id) == IF table = {} THEN {} ELSE {CHOOSE e \in table : TRUE}

\* pending_responses.remove(&request_id): the entries it takes out.
PendingTake(table, id) == {e \in table : e[1] = id}

\* Command::SendResponse: remove the one-shot sender and fire it.
SendResponse ==
  /\ Receive("SendResponse")
  /\ LET c == Head(cmdq)
         hit == PendingTake(pending_responses, c.id)
     IN
       /\ pending_responses' = pending_responses \ hit
       /\ streams' =
            [s \in 1..Len(streams) |->
               IF (\E e \in hit : e[2] = s) /\ streams[s].st = "wait"
                 THEN [streams[s] EXCEPT !.slot = c.resp]
                 ELSE streams[s]]
  /\ UNCHANGED <<hostVars, hlsVars, loopVars, cmdOpen, cmdsIssued, lastStats, regVars,
                 hls_streams, nextId, events>>

\* Command::GetNetworkStats.
GetNetworkStats ==
  /\ Receive("GetNetworkStats")
  /\ lastStats' = NetworkStats(Cardinality(connected_peers), relay_connected)
  /\ UNCHANGED <<hostVars, hlsVars, loopVars, cmdOpen, cmdsIssued, regVars, reqVars, events>>

\* The transport shuts the endpoint down: accept() yields None from now on.
EndpointClose ==
  /\ loopPc = "select"
  /\ endpointOpen
  /\ endpointOpen' = FALSE
  /\ UNCHANGED <<hostVars, hlsVars, loopPc, relay_connected, cmdVars, regVars, reqVars, events>>

\* select!'s else branch: both branches are disabled.
LoopTerminate ==
  /\ loopPc = "select"
  /\ ~endpointOpen
  /\ ~cmdOpen /\ cmdq = <<>>
  /\ loopPc' = "terminated"
  /\ UNCHANGED <<hostVars, hlsVars, endpointOpen, relay_connected, cmdVars, regVars, reqVars, events>>

\* The loop's runtime is alive: the tasks spawned on it run.
RuntimeAlive == loopPc \in {"select", "hls", "request"}

\* Nobody holds the mutex of the shared state: the loop is not inside one of
\* the server-push commands, which keep it until they reply.
LockFree == loopPc # "hls"

(* ------------------------------------------------------------------ *)
(* Remote peers: handle_send_request                                   *)
(* ------------------------------------------------------------------ *)
Result(k, r) == [kind |-> k, resp |-> r]

NewStream(c, frame) ==
  [conn |-> c, frame |-> frame, st |-> "sent", id |-> 0, slot |-> NoMsg,
   out |-> <<>>, fin |-> FALSE, result |-> Result("pending", NoMsg),
   rpc |-> "none", need |-> 0, buf |-> <<>>, queue |-> <<>>, taken |-> <<>>,
   rxOpen |-> TRUE]

\* A remote event loop handles one SendRequest at a time.
Busy(p) ==
  \E s \in 1..Len(streams) :
    conns[streams[s].conn].peer = p /\ streams[s].result.kind = "pending"

\* open_bi, write_all(request), finish.
ClientSendFrame(frames) ==
  /\ Len(streams) < MaxStreams
  /\ \E c \in 1..Len(conns), f \in frames :
       /\ conns[c].open
       /\ ~Busy(conns[c].peer)
       /\ streams' = Append(streams, NewStream(c, f))
  /\ UNCHANGED <<hostVars, hlsVars, loopVars, cmdVars, regVars, pending_responses, hls_streams,
                 nextId, events>>

ClientSendRequest == ClientSendFrame({Encode(Msg("Ping", 0)), Encode(Msg("Pairing", 1))})

\* read_to_end(64 KiB) and serde_cbor::from_slice of the reply.
ClientReadResponse ==
  /\ \E s \in 1..Len(streams) :
       /\ streams[s].result.kind = "pending"
       /\ \/ /\ streams[s].fin
             /\ LET r == Decode(streams[s].out, ResponseVariants) IN
                  streams' = [streams EXCEPT ![s].result =
                    IF r = DecodeError THEN Result("err", NoMsg) ELSE Result("ok", r)]
          \/ /\ ~streams[s].fin
             /\ \/ ~conns[streams[s].conn].open
                \/ streams[s].st = "dropped"
             /\ streams' = [streams EXCEPT ![s].result = Result("err", NoMsg)]
  /\ UNCHANGED <<hostVars, hlsVars, loopVars, cmdVars, regVars, pending_responses, hls_streams,
                 nextId, events>>

(* ------------------------------------------------------------------ *)
(* handle_connection                                                   *)
(* ------------------------------------------------------------------ *)
\* write_all + finish on a send-half: nothing arrives on a closed connection.
WriteAndFinish(s, bytes) ==
  IF conns[s.conn].open THEN [s EXCEPT !.out = s.out \o bytes, !.fin = TRUE] ELSE s

NextInboundBlocked(c) ==
  {s \in 1..Len(streams) :
     /\ streams[s].conn = c /\ streams[s].st \in {"open", "sent"}
     /\ \A t \in 1..(s - 1) :
          ~(streams[t].conn = c /\ streams[t].st \in {"open", "sent", "dropped"})}

\* The stream accept_bi yields next on connection c: streams come in the order
\* in which the peer opened them, whether or not their request is complete
\* ("open": the peer has not finished its send side yet).
NextInbound(c) ==
  {s \in 1..Len(streams) :
     /\ streams[s].conn = c /\ streams[s].st \in {"open", "sent"}
     /\ \A t \in 1..(s - 1) :
          ~(streams[t].conn = c /\ streams[t].st \in {"open", "sent"})}

\* The task of connection c is at accept_bi, not inside a send on the event
\* channel.
AtAcceptBi(c) ==
  \A t \in 1..Len(streams) : ~(streams[t].conn = c /\ streams[t].st = "send")

\* Where the task is once the event of stream s has been sent.
AfterSend(s) ==
  IF Decode(s.frame, RequestVariants).variant = "HlsStream" THEN "hls" ELSE "wait"

\* The event that announces stream number n (the record s) to the embedder.
Announcement(n, s) ==
  Event(IF AfterSend(s) = "hls" THEN "HlsStreamRequest" ELSE "RequestReceived",
        conns[s.conn].peer, s.conn, "None", s.id, n)

\* event_tx.send(..).await in the task of stream n, after the table insert:
\* it goes through if the channel has room, else the task stays in the send.
SendOrWait(n, id) ==
  LET s == [streams[n] EXCEPT !.id = id] IN
    IF InChannel < EventCapacity
      THEN /\ streams' = [streams EXCEPT ![n] = [s EXCEPT !.st = AfterSend(s)]]
           /\ events' = Append(events, Announcement(n, s))
      ELSE /\ streams' = [streams EXCEPT ![n] = [s EXCEPT !.st = "send"]]
           /\ UNCHANGED events

TableInsertLost(table, id, s) == table

\* state.pending_responses.insert(request_id, resp_tx) and
\* state.hls_streams.insert(stream_id, send), under the lock.
TableInsert(table, id, s) == table \cup {<<id, s>>}

IsPingNever(req) == FALSE

\* matches!(request, MydiaRequest::Ping).
IsPing(req) == req.variant = "Ping"

\* One turn of handle_connection's loop on a stream: read, decode, dispatch.
\* read_to_end returns when the peer has finished the stream; until then the
\* task is inside this turn.
HandleStream ==
  /\ RuntimeAlive
  /\ \E c \in 1..Len(conns), s \in 1..Len(streams) :
       /\ conns[c].task = "run" /\ conns[c].open
       /\ AtAcceptBi(c)
       /\ s \in NextInbound(c)
       /\ streams[s].st = "sent"
       /\ LET data == read_to_end(streams[s].frame, ReadLimit)
              req == IF data.ok THEN Decode(data.data, RequestVariants) ELSE DecodeError
              id == nextId
          IN
            /\ nextId' = nextId + 1
            /\ \/ /\ req = DecodeError
                  /\ streams' = [streams EXCEPT ![s].st = "dropped"]
                  /\ events' = TrySend(events, IF data.ok THEN DecodeWarning ELSE ReadWarning)
                  /\ UNCHANGED <<hostVars, hlsVars, pending_responses, hls_streams>>
               \/ /\ IsPing(req)
                  /\ streams' = [streams EXCEPT ![s] =
                       [WriteAndFinish(streams[s], Encode(Pong)) EXCEPT !.st = "done"]]
                  /\ UNCHANGED <<hostVars, hlsVars, pending_responses, hls_streams, events>>
               \/ /\ req.variant = "HlsStream"
                  /\ LockFree
                  /\ hls_streams' = TableInsert(hls_streams, id, s)
                  /\ SendOrWait(s, id)
                  /\ UNCHANGED pending_responses
               \/ /\ req # DecodeError
                  /\ ~IsPing(req)
                  /\ req.variant # "HlsStream"
                  /\ LockFree
                  /\ pending_responses' = TableInsert(pending_responses, id, s)
                  /\ SendOrWait(s, id)
                  /\ UNCHANGED hls_streams
  /\ UNCHANGED <<hostVars, hlsVars, loopVars, cmdVars, regVars>>

\* The channel has room again: the send a task was waiting in completes, and
\* the task goes on (it spawns the reply task, or is back at accept_bi).
EventSendCompletes ==
  /\ RuntimeAlive
  /\ \E n \in 1..Len(streams) :
       /\ streams[n].st = "send"
       /\ Emit(Announcement(n, streams[n]))
       /\ streams' = [streams EXCEPT ![n].st = AfterSend(streams[n])]
  /\ UNCHANGED <<hostVars, hlsVars, loopVars, cmdVars, regVars, pending_responses,
                 hls_streams, nextId>>

ReplyDeliverTwice ==
  /\ RuntimeAlive
  /\ \E s \in 1..Len(streams) :
       /\ streams[s].st = "wait"
       /\ streams[s].slot # NoMsg
       /\ streams' = [streams EXCEPT ![s] =
            [streams[s] EXCEPT !.out = @ \o Encode(streams[s].slot), !.fin = TRUE]]
  /\ UNCHANGED <<hostVars, hlsVars, loopVars, cmdVars, regVars, pending_responses, hls_streams,
                 nextId, events>>

\* The reply task: the one-shot fired with the embedder's response.
ReplyDeliver ==
  /\ RuntimeAlive
  /\ \E s \in 1..Len(streams) :
       /\ streams[s].st = "wait"
       /\ streams[s].slot # NoMsg
       /\ streams' = [streams EXCEPT ![s] =
            [WriteAndFinish(streams[s], Encode(streams[s].slot)) EXCEPT !.st = "done"]]
  /\ UNCHANGED <<hostVars, hlsVars, loopVars, cmdVars, regVars, pending_responses, hls_streams,
                 nextId, events>>

ReplyTimeoutSilent ==
  /\ RuntimeAlive
  /\ \E s \in 1..Len(streams) :
       /\ streams[s].st = "wait"
       /\ streams[s].slot = NoMsg
       /\ streams' = [streams EXCEPT ![s].st = "timeout"]
  /\ UNCHANGED <<hostVars, hlsVars, loopVars, cmdVars, regVars, pending_responses, hls_streams,
                 nextId, events>>

\* The reply task: 30 s passed with the one-shot still empty.
ReplyTimeout ==
  /\ RuntimeAlive
  /\ \E s \in 1..Len(streams) :
       /\ streams[s].st = "wait"
       /\ streams[s].slot = NoMsg
       /\ streams' = [streams EXCEPT ![s] =
            [WriteAndFinish(streams[s], Encode(TimeoutResponse))
               EXCEPT !.st = "timeout"]]
  /\ UNCHANGED <<hostVars, hlsVars, loopVars, cmdVars, regVars, pending_responses, hls_streams,
                 nextId, events>>

\* The peer goes away or the path dies: the connection is closed.
ConnectionClose ==
  /\ \E c \in 1..Len(conns) :
       /\ conns[c].open
       /\ conns' = [conns EXCEPT ![c].open = FALSE]
  /\ UNCHANGED <<hostVars, hlsVars, loopVars, cmdVars, connected_peers, pathChanges, reqVars, events>>

\* accept_bi fails: emit Disconnected and leave the loop.
ConnectionTaskExit ==
  /\ RuntimeAlive
  /\ \E c \in 1..Len(conns) :
       /\ conns[c].task = "run" /\ ~conns[c].open
       /\ AtAcceptBi(c)
       /\ conns' = [conns EXCEPT ![c].task = "done"]
       /\ Emit(Event("Disconnected", conns[c].peer, c, "None", 0, 0))
  /\ UNCHANGED <<hostVars, hlsVars, loopVars, cmdVars, connected_peers, pathChanges, reqVars>>

(* ------------------------------------------------------------------ *)
(* The registry and the life of the loop                               *)
(* ------------------------------------------------------------------ *)
Next ==
  \/ Bind
  \/ RelayWait
  \/ Accept
  \/ HostDial
  \/ HostGetNetworkStats
  \/ HostDrop
  \/ handle_dial
  \/ GetNetworkStats
  \/ EndpointClose
  \/ LoopTerminate
  \/ ConnectionClose
  \/ ConnectionTaskExit

Spec == Init /\ [][Next]_vars

\* The loop and the tasks on its runtime are scheduled; what the embedder, the
\* peers and the transport do is up to them.
FairSpec ==
  /\ Spec
  /\ WF_vars(Bind) /\ WF_vars(RelayWait)
  /\ WF_vars(handle_dial) /\ WF_vars(GetNetworkStats)
  /\ WF_vars(LoopTerminate) /\ WF_vars(ConnectionTaskExit)

\* C4: after any sequence of accepts and dials the registry holds at most one
\* entry per peer node id.
RegistryUnique ==
  \A e1 \in connected_peers, e2 \in connected_peers : e1[1] = e2[1] => e1 = e2

\* A peer has been registered twice (an accept and a dial, or two of either).
RegisteredTwice ==
  /\ Len(conns) >= 2
  /\ conns[1].peer = conns[2].peer
  /\ <<conns[2].peer, 2>> \in connected_peers

\* C5: once a connection to p has closed (Disconnected(p) emitted by its task)
\* and no newer connection to p has been registered, the registry has no entry
\* for p.
RegistryHoldsOnlyLive ==
  \A c \in 1..Len(conns) :
    (/\ conns[c].task = "done"
     /\ \A d \in (c + 1)..Len(conns) : conns[d].peer # conns[c].peer)
    => \A e \in connected_peers : e[1] # conns[c].peer

\* C6: once the command channel has closed, the event loop eventually
\* terminates.
TerminatesAfterChannelClose == (~cmdOpen) ~> (loopPc = "terminated")

\* The step in which the loop takes a Dial off the command channel.
DialHandled ==
  /\ loopPc = "select"
  /\ cmdq # <<>>
  /\ Head(cmdq).kind = "Dial"
  /\ cmdq' = Tail(cmdq)

ConnectedEvents(ev) == {i \in 1..Len(ev) : ev[i].type = "Connected"}

\* C11: a Dial that fails, because its address is not an address blob or
\* because the transport cannot open the connection, replies Err to the
\* caller, leaves the registry as it was, emits no Connected event and starts
\* no connection task and no monitor.
DialFailureLeavesNoTrace ==
  [][DialHandled =>
       /\ Len(replies') = Len(replies) + 1
       /\ LET r == replies'[Len(replies')] IN
            /\ r.kind = "Dial"
            /\ Head(cmdq).addr.form # "blob" => ~r.ok
            /\ ~r.ok =>
                 /\ connected_peers' = connected_peers
                 /\ conns' = conns
                 /\ ConnectedEvents(events') = ConnectedEvents(events)
            /\ r.ok => \E e \in connected_peers' : e[1] = Head(cmdq).addr.id]_vars

\* Both kinds of failed Dial have been replied to, one of them with a peer
\* registered.
DialFailed ==
  /\ \E i \in 1..Len(replies) :
       replies[i] = Reply("Dial", FALSE, "Invalid EndpointAddr JSON", "p1", NoMsg)
  /\ \E i \in 1..Len(replies) :
       /\ replies[i].kind = "Dial" /\ replies[i].tag = "Failed to connect"
  /\ connected_peers # {}

\* C22: a Dial whose address is well formed, the full address blob or the
\* bare node id of a peer, is never answered with a decoding error.
DialAcceptsBothForms ==
  [][(DialHandled /\ Head(cmdq).addr.form \in {"blob", "bare"})
       => replies'[Len(replies')].tag # "Invalid EndpointAddr JSON"]_vars

\* C16: when accept or dial registers a connection for a peer id that is
\* already registered, the new connection takes the old entry's place and the
\* displaced connection is closed.
DisplacedConnectionClosed ==
  [][\A e \in connected_peers :
       (e \notin connected_peers' /\ \E f \in connected_peers' : f[1] = e[1])
       =>
         /\ \A f, g \in connected_peers' : f[1] = g[1] => f = g
         /\ \E f \in connected_peers' : f[1] = e[1] /\ f[2] = Len(conns')
         /\ ~conns'[e[2]].open]_vars

\* C17: a Dial of a peer that is already registered returns Ok and has no
\* further effect the embedder can see: the registry keeps one entry for the
\* peer, no second Connected event is emitted, and no second connection task
\* and monitor are started.
RedialIsIdempotent ==
  [][(/\ DialHandled
      /\ \E e \in connected_peers : e[1] = Head(cmdq).addr.id
      /\ replies'[Len(replies')].ok)
     =>
       /\ Cardinality({e \in connected_peers' : e[1] = Head(cmdq).addr.id}) = 1
       /\ ConnectedEvents(events') = ConnectedEvents(events)
       /\ conns' = conns]_vars

\* C38: whenever Disconnected(p) is emitted, the registry holds no live
\* connection to p: the closing of a connection that a newer accept or dial
\* for the same peer has displaced produces no Disconnected(p) while the
\* newer connection is registered and live.
DisconnectedMeansNoneLive ==
  [][(/\ Len(events') = Len(events) + 1
      /\ events'[Len(events')].type = "Disconnected")
     => \A e \in connected_peers' :
          e[1] = events'[Len(events')].peer => ~conns'[e[2]].open]_vars

(* ------------------------------------------------------------------ *)
(* Requests and responses on two registered connections                *)
(* ------------------------------------------------------------------ *)
\* The loop is in select! and has accepted one connection from each peer.
InitReq ==
  /\ loopPc = "select"
  /\ endpointOpen = TRUE
  /\ relay_connected = TRUE
  /\ cmdOpen = TRUE
  /\ cmdq = <<>>
  /\ cmdsIssued = 0
  /\ lastStats = NoStats
  /\ connected_peers = {<<"p1", 1>>, <<"p2", 2>>}
  /\ conns = <<NewConn("p1", {"relay"}), NewConn("p2", {"relay"})>>
  /\ pathChanges = 0
  /\ streams = <<>>
  /\ pending_responses = {}
  /\ hls_streams = {}
  /\ nextId = 1
  /\ hlsOp = NoOp
  /\ hlsCalls = <<>>
  /\ replies = <<>>
  /\ outReq = NoOut
  /\ evRead = 0
  /\ logged = 0
  /\ reader_tasks = 0
  /\ keypair_file = NoFile
  /\ hosts = <<>>
  /\ codec = NoCodec
  /\ LOG_TX = 1
  /\ events = <<>>

NextReq ==
  \/ HostSendResponse
  \/ SendResponse
  \/ ClientSendRequest
  \/ ClientReadResponse
  \/ HandleStream
  \/ ReplyDeliver
  \/ ReplyTimeout
  \/ ConnectionClose

SpecReq == InitReq /\ [][NextReq]_vars

\* The command loop, the connection tasks, the reply tasks and the remote
\* loops are all scheduled.
FairSpecReq ==
  /\ SpecReq
  /\ WF_vars(SendResponse) /\ WF_vars(HandleStream)
  /\ WF_vars(ReplyDeliver) /\ WF_vars(ReplyTimeout)
  /\ WF_vars(ClientReadResponse)

\* The step in which the loop takes a SendResponse off the command channel.
SendResponseHandled ==
  /\ loopPc = "select"
  /\ cmdq # <<>>
  /\ Head(cmdq).kind = "SendResponse"
  /\ cmdq' = Tail(cmdq)

\* C13: a SendResponse whose request id is not in the pending-response table
\* is a silent no-op: both pending tables and the registry stay as they are,
\* nothing is written to any stream, no event and no reply is produced, and
\* the loop is back in select! for the next command.
UnknownResponseIsNoOp ==
  [][(/\ SendResponseHandled
      /\ \A e \in pending_responses : e[1] # Head(cmdq).id)
     =>
       /\ UNCHANGED <<pending_responses, hls_streams, connected_peers, conns,
                      streams, events, replies>>
       /\ loopPc' = "select"]_vars

\* Two SendResponse commands have been handled: one answered a request, the
\* other named no pending id and has left the request that still waits alone.
UnknownResponseHandled ==
  /\ cmdsIssued = 2 /\ cmdq = <<>>
  /\ \E a, b \in 1..Len(streams) :
       /\ streams[a].st = "done" /\ streams[a].id # 0
       /\ streams[b].st = "wait" /\ streams[b].slot = NoMsg
       /\ <<streams[b].id, b>> \in pending_responses

\* The request id announced in the RequestReceived event of stream s.
AnnouncedId(s) ==
  LET i == CHOOSE j \in 1..Len(events) :
             events[j].type = "RequestReceived" /\ events[j].stream = s
  IN events[i].id

Announced(s) ==
  \E j \in 1..Len(events) : events[j].type = "RequestReceived" /\ events[j].stream = s

\* C1: whatever the interleaving of requests and of the embedder's
\* send_response calls, a caller whose request was answered by the embedder
\* receives the response produced for the request id announced for its own
\* stream, never the response produced for another request.
RequestCorrelation ==
  \A s \in 1..Len(streams) :
    LET r == streams[s].result IN
    (r.kind = "ok" /\ r.resp \notin {Pong, TimeoutResponse})
      => Announced(s) /\ r.resp \in EmbedderResponses(AnnouncedId(s))

\* Two callers, one per peer, have both received an embedder-produced response.
TwoCallersAnswered ==
  \E s \in 1..Len(streams), t \in 1..Len(streams) :
    /\ streams[s].conn # streams[t].conn
    /\ streams[s].result.kind = "ok" /\ streams[s].result.resp.variant = "Pairing"
    /\ streams[t].result.kind = "ok" /\ streams[t].result.resp.variant = "Pairing"

\* C15: an inbound Ping is answered inline with Pong and the stream is
\* finished: it gets no RequestReceived event, no entry in a pending table,
\* no timeout reply and no embedder response, and the requester's SendRequest
\* returns Pong.
PingAnsweredInline ==
  \A s \in 1..Len(streams) :
    streams[s].frame = Encode(Msg("Ping", 0)) =>
      /\ streams[s].st \in {"sent", "done"}
      /\ streams[s].slot = NoMsg
      /\ \A i \in 1..Len(events) : events[i].stream # s
      /\ \A e \in pending_responses \cup hls_streams : e[2] # s
      /\ streams[s].st = "done" /\ streams[s].out # <<>> =>
           streams[s].out = Encode(Pong) /\ streams[s].fin
      /\ streams[s].fin => streams[s].st = "done"
      /\ streams[s].result.kind = "ok" => streams[s].result.resp = Pong

\* A Ping has returned Pong to its requester with no command ever issued by
\* the embedder, while another peer's request waits for the embedder.
PingReturnedPong ==
  /\ cmdsIssued = 0
  /\ \E s, t \in 1..Len(streams) :
       /\ streams[s].frame = Encode(Msg("Ping", 0))
       /\ streams[s].result = Result("ok", Pong)
       /\ streams[t].st = "wait"

\* C29: the pending-response table holds only ids of requests that still
\* await a response: once SendResponse has handed the response for an id
\* over, or the 30 s timeout of the id has fired, the id is no key of it.
PendingOnlyAwaiting ==
  \A e \in pending_responses :
    /\ streams[e[2]].st \in {"send", "wait"}
    /\ streams[e[2]].slot = NoMsg

(* ------------------------------------------------------------------ *)
(* Requests and responses on one registered connection                 *)
(* ------------------------------------------------------------------ *)
\* The loop is in select! and has accepted a connection from p1.
InitOneConn ==
  /\ loopPc = "select"
  /\ endpointOpen = TRUE
  /\ relay_connected = TRUE
  /\ cmdOpen = TRUE
  /\ cmdq = <<>>
  /\ cmdsIssued = 0
  /\ lastStats = NoStats
  /\ connected_peers = {<<"p1", 1>>}
  /\ conns = <<NewConn("p1", {"relay"})>>
  /\ pathChanges = 0
  /\ streams = <<>>
  /\ pending_responses = {}
  /\ hls_streams = {}
  /\ nextId = 1
  /\ events = <<Event("Connected", "p1", 1, "Relay", 0, 0)>>
  /\ hlsOp = NoOp
  /\ hlsCalls = <<>>
  /\ replies = <<>>
  /\ outReq = NoOut
  /\ evRead = 0
  /\ logged = 0
  /\ reader_tasks = 0
  /\ keypair_file = NoFile
  /\ hosts = <<>>
  /\ codec = NoCodec
  /\ LOG_TX = 1

SpecOneConn == InitOneConn /\ [][NextReq]_vars

\* The command loop, the connection task, the reply tasks and the remote loop
\* are all scheduled.
FairSpecOneConn ==
  /\ SpecOneConn
  /\ WF_vars(SendResponse) /\ WF_vars(HandleStream)
  /\ WF_vars(ReplyDeliver) /\ WF_vars(ReplyTimeout)
  /\ WF_vars(ClientReadResponse)

\* What holds of a request whose 30 s timer fired with no response handed over.
TimedOutSafe(s) ==
  /\ streams[s].out \in {<<>>, Encode(TimeoutResponse)}
  /\ conns[streams[s].conn].open =>
        streams[s].fin /\ streams[s].out = Encode(TimeoutResponse)
  /\ streams[s].result.kind = "ok" => streams[s].result.resp = TimeoutResponse

\* C2: a non-Ping, non-streaming request the embedder never answers gets
\* exactly one response written, Error("Request timeout"), when the timer
\* fires, and nothing before; the requester's call returns that response as
\* long as the connection lasts, and does not wait forever.
TimeoutFidelity ==
  /\ [](\A s \in 1..Len(streams) :
          /\ streams[s].st = "timeout" => TimedOutSafe(s)
          /\ (streams[s].st = "wait" /\ streams[s].slot = NoMsg) =>
                streams[s].out = <<>> /\ streams[s].result.kind # "ok")
  /\ \A s \in 1..MaxStreams :
       (Len(streams) >= s /\ streams[s].st = "wait")
         ~> (Len(streams) >= s /\ streams[s].result.kind # "pending")

\* A requester has received the timeout response.
TimeoutObserved ==
  \E s \in 1..Len(streams) :
    streams[s].st = "timeout" /\ streams[s].result = Result("ok", TimeoutResponse)

(* ------------------------------------------------------------------ *)
(* monitor_connection_type                                             *)
(* ------------------------------------------------------------------ *)
MonitorPolls == 24

\* The transport adds or drops paths of a live connection; the paths of a
\* closed one can only go away.
PathChange ==
  /\ pathChanges < MaxPathChanges
  /\ pathChanges' = pathChanges + 1
  /\ \E c \in 1..Len(conns), paths \in PathSets :
       /\ paths # conns[c].paths
       /\ conns[c].open \/ paths = {}
       /\ conns' = [conns EXCEPT ![c].paths = paths]
  /\ UNCHANGED <<hostVars, hlsVars, loopVars, cmdVars, connected_peers, reqVars, events>>

\* The spawned monitor runs its first line: current_type.
MonitorStart ==
  /\ RuntimeAlive
  /\ \E c \in 1..Len(conns) :
       /\ conns[c].monPc = "start"
       /\ conns' = [conns EXCEPT ![c].monPc = "poll",
                                 ![c].monCur = from_connection(conns[c].paths),
                                 ![c].monLeft = MonitorPolls]
  /\ UNCHANGED <<hostVars, hlsVars, loopVars, cmdVars, connected_peers, pathChanges, reqVars, events>>

\* Whether the monitor leaves its loop after observing `new`.
MonitorStops(old, new) == new # old /\ new = "Direct"

\* One turn of the monitor's loop: sleep 5 s, compare, emit on change.
MonitorPoll ==
  /\ RuntimeAlive
  /\ \E c \in 1..Len(conns) :
       LET new == from_connection(conns[c].paths)
           old == conns[c].monCur
       IN
         /\ conns[c].monPc = "poll"
         /\ conns[c].monLeft > 0
         /\ events' =
              IF new # old
                THEN Append(events,
                       Event("ConnectionTypeChanged", conns[c].peer, c, new, 0, 0))
                ELSE events
         /\ conns' = [conns EXCEPT
              ![c].monCur = new,
              ![c].monLeft = conns[c].monLeft - 1,
              ![c].monPc =
                IF MonitorStops(old, new) \/ conns[c].monLeft = 1
                  THEN "done" ELSE "poll"]
  /\ UNCHANGED <<hostVars, hlsVars, loopVars, cmdVars, connected_peers, pathChanges, reqVars>>

\* The loop is in select!, Ready has been emitted, nobody has connected yet.
InitMon ==
  /\ loopPc = "select"
  /\ endpointOpen = TRUE
  /\ relay_connected = TRUE
  /\ events = <<ReadyEvent>>
  /\ LOG_TX = 1
  /\ Idle

NextMon ==
  \/ (Len(conns) < 1 /\ AcceptWith(PathSets))
  \/ PathChange
  \/ MonitorStart
  \/ MonitorPoll
  \/ ConnectionClose
  \/ ConnectionTaskExit

SpecMon == InitMon /\ [][NextMon]_vars

\* C7: for each connection, Connected comes before any RequestReceived or
\* HlsStreamRequest of that connection, and Disconnected is the last event
\* emitted for it.
DisconnectedIsLast ==
  \A j \in 1..Len(events) :
    /\ events[j].type \in {"RequestReceived", "HlsStreamRequest"} =>
         \E i \in 1..(j - 1) :
           events[i].type = "Connected" /\ events[i].conn = events[j].conn
    /\ events[j].conn # 0 =>
         \A i \in 1..(j - 1) :
           ~(events[i].type = "Disconnected" /\ events[i].conn = events[j].conn)

\* C9: once Direct has been emitted for a peer, in Connected or in
\* ConnectionTypeChanged, no later ConnectionTypeChanged of that peer carries
\* another type.
DirectIsFinal ==
  \A i \in 1..Len(events), j \in 1..Len(events) :
    (/\ i < j
     /\ events[i].type \in {"Connected", "ConnectionTypeChanged"}
     /\ events[i].ctype = "Direct"
     /\ events[j].type = "ConnectionTypeChanged"
     /\ events[j].peer = events[i].peer)
    => events[j].ctype = "Direct"

\* The ConnectionTypeChanged events emitted for connection c.
TypeChanges(c) ==
  {j \in 1..Len(events) :
     events[j].type = "ConnectionTypeChanged" /\ events[j].conn = c}

\* C21: for a connection that was relay-only when registered (Connected
\* carried Relay) and for which a ConnectionTypeChanged carrying Direct or
\* Mixed has been emitted, that event is the only ConnectionTypeChanged of
\* the connection and its monitor has stopped polling.
RelayUpgradeStopsMonitor ==
  \A c \in 1..Len(conns) :
    (/\ \E i \in 1..Len(events) :
          /\ events[i].type = "Connected"
          /\ events[i].conn = c
          /\ events[i].ctype = "Relay"
     /\ \E j \in TypeChanges(c) : events[j].ctype \in {"Direct", "Mixed"})
    => /\ Cardinality(TypeChanges(c)) = 1
       /\ conns[c].monPc = "done"

\* The type the embedder was last told for connection c, in Connected or in
\* ConnectionTypeChanged.
LastAnnounced(c) ==
  LET told == {j \in 1..Len(events) :
                 /\ events[j].conn = c
                 /\ events[j].type \in {"Connected", "ConnectionTypeChanged"}}
  IN events[CHOOSE j \in told : \A k \in told : k <= j].ctype

\* C34: a monitor emits ConnectionTypeChanged at a poll if and only if the
\* type computed at that poll differs from the type it last observed, which
\* is at first the type at registration (the one Connected carried), and the
\* event carries the new type; no two consecutive ConnectionTypeChanged events
\* of one monitor carry the same type, and a monitor polls at most 24 times.
MonitorEmitsOnChange ==
  /\ [](\A c \in 1..Len(conns) :
          /\ conns[c].monLeft \in 0..MonitorPolls
          /\ \A i \in TypeChanges(c), j \in TypeChanges(c) :
               (i < j /\ \A k \in TypeChanges(c) : ~(i < k /\ k < j))
                 => events[i].ctype # events[j].ctype)
  /\ [][\A c \in 1..Len(conns) :
          (conns[c].monPc = "poll" /\ conns'[c].monLeft < conns[c].monLeft) =>
            LET new == from_connection(conns[c].paths) IN
              events' = IF new # LastAnnounced(c)
                          THEN Append(events,
                                 Event("ConnectionTypeChanged", conns[c].peer, c, new, 0, 0))
                          ELSE events]_vars

(* ------------------------------------------------------------------ *)
(* Server push: the framing of an HlsStream response                   *)
(* ------------------------------------------------------------------ *)
\* Bytes a stream can hold written and not yet read (flow-control window).
Window == 6
MaxHlsCalls == 3
MaxBpCalls == 20
MaxTakes == 2

\* mpsc::channel::<Vec<u8>>(16)
ChunkQueueCapacity == 16

Min(a, b) == IF a < b THEN a ELSE b

\* u32::to_be_bytes and u32::from_be_bytes.
to_be_bytes(n) ==
  <<(n \div 16777216) % 256, (n \div 65536) % 256, (n \div 256) % 256, n % 256>>

from_be_bytes(b) == b[1] * 16777216 + b[2] * 65536 + b[3] * 256 + b[4]

\* Chunk payloads the embedder hands to send_hls_chunk.
HlsChunks == {<<>>, <<1>>, <<1, 2>>}

\* The header the embedder hands to send_hls_header.
HlsHeaderValue == Msg("HlsHeader", 1)

\* The stream a remote peer has after open_bi, write_all(HlsStream), finish:
\* it is about to read the header's length prefix.
NewHlsStream(c) ==
  [NewStream(c, Encode(Msg("HlsStream", 1))) EXCEPT !.rpc = "hdr_len", !.need = 4]

\* Stream ids the embedder has been told of.
KnownStreamIds ==
  {events[i].id : i \in {j \in 1..Len(events) : events[j].type = "HlsStreamRequest"}}

\* The stream whose send-half the table holds under id (0: none).
HlsStreamOf(id) ==
  IF \E e \in hls_streams : e[1] = id
    THEN (CHOOSE e \in hls_streams : e[1] = id)[2] ELSE 0

\* The stream the embedder is sending on under id (0: none).
StreamOfId(id) ==
  IF \E s \in 1..Len(streams) : streams[s].st = "hls" /\ streams[s].id = id
    THEN CHOOSE s \in 1..Len(streams) : streams[s].st = "hls" /\ streams[s].id = id
    ELSE 0

\* The command of call number n of the embedder: `call` stands for the reply
\* channel the command carries.
HlsCmd(k, id, d, n) ==
  [Cmd(k, NoAddr, id, IF k = "SendHlsHeader" THEN HlsHeaderValue ELSE NoMsg)
     EXCEPT !.data = d, !.call = n]

HostHlsSubmitFront(k, ids, payloads, max) ==
  /\ cmdOpen
  /\ Len(cmdq) < CommandCapacity
  /\ Len(hlsCalls) < max
  /\ \E id \in ids, d \in payloads :
       LET s == StreamOfId(id) IN
       /\ cmdq' = <<HlsCmd(k, id, d, Len(hlsCalls) + 1)>> \o cmdq
       /\ hlsCalls' = Append(hlsCalls,
            [kind |-> k, id |-> id, data |-> d, result |-> "pending",
             full |-> s # 0 /\ Len(streams[s].queue) = ChunkQueueCapacity,
             takes |-> IF s = 0 THEN 0 ELSE Len(streams[s].taken)])
  /\ UNCHANGED <<hostVars, loopVars, cmdOpen, cmdsIssued, lastStats, regVars, reqVars,
                 events, hlsOp>>

\* cmd_tx.blocking_send(..) of send_hls_header, send_hls_chunk or
\* finish_hls_stream: the command joins the queue behind the ones before it.
HostHlsSubmit(k, ids, payloads, max) ==
  /\ cmdOpen
  /\ Len(cmdq) < CommandCapacity
  /\ Len(hlsCalls) < max
  /\ \E id \in ids, d \in payloads :
       LET s == StreamOfId(id) IN
       /\ cmdq' = Append(cmdq, HlsCmd(k, id, d, Len(hlsCalls) + 1))
       /\ hlsCalls' = Append(hlsCalls,
            [kind |-> k, id |-> id, data |-> d, result |-> "pending",
             full |-> s # 0 /\ Len(streams[s].queue) = ChunkQueueCapacity,
             takes |-> IF s = 0 THEN 0 ELSE Len(streams[s].taken)])
  /\ UNCHANGED <<hostVars, loopVars, cmdOpen, cmdsIssued, lastStats, regVars, reqVars,
                 events, hlsOp>>

\* One blocking call of send_hls_header, send_hls_chunk or finish_hls_stream:
\* the command is queued and the caller waits for the reply.  While the call
\* is pending its entry in the call log notes whether the client's queue was
\* full, and how many chunks the consumer had taken, when it was made.
HostHlsCall(k, ids, payloads, max) ==
  /\ \A i \in 1..Len(hlsCalls) : hlsCalls[i].result # "pending"
  /\ HostHlsSubmit(k, ids, payloads, max)

HostSendHlsHeader ==
  HostHlsCall("SendHlsHeader", KnownStreamIds, {<<>>}, MaxHlsCalls)

HostSendHlsChunk ==
  HostHlsCall("SendHlsChunk", KnownStreamIds, HlsChunks, MaxHlsCalls)

HostFinishHlsStream ==
  HostHlsCall("FinishHlsStream", KnownStreamIds, {<<>>}, MaxHlsCalls)

\* The call whose command the loop is handling.
ReplyTo == IF loopPc = "hls" THEN hlsOp.call ELSE Head(cmdq).call

HlsReplyOk(r) ==
  hlsCalls' = [hlsCalls EXCEPT ![ReplyTo].result = "ok",
                               ![ReplyTo].full = FALSE,
                               ![ReplyTo].takes = 0]

\* reply.send(result): the pending call returns (and its note is dropped).
HlsReply(r) ==
  hlsCalls' = [hlsCalls EXCEPT ![ReplyTo].result = r,
                               ![ReplyTo].full = FALSE,
                               ![ReplyTo].takes = 0]

\* The loop takes the lock and looks the stream up; if it is there the loop
\* goes on to write `bufs` one after the other, else it replies with an error.
HlsCommand(k, bufs, remove) ==
  /\ Receive(k)
  /\ LET s == HlsStreamOf(Head(cmdq).id) IN
       IF s = 0
         THEN /\ HlsReply("err")
              /\ UNCHANGED <<loopVars, hlsOp, hls_streams>>
         ELSE /\ loopPc' = "hls"
              /\ hlsOp' = [kind |-> k, stream |-> s, bufs |-> bufs, call |-> Head(cmdq).call]
              /\ hls_streams' =
                   IF remove THEN {e \in hls_streams : e[1] # Head(cmdq).id}
                   ELSE hls_streams
              /\ UNCHANGED <<endpointOpen, relay_connected, hlsCalls>>
  /\ UNCHANGED <<hostVars, cmdOpen, cmdsIssued, lastStats, regVars, streams,
                 pending_responses, nextId, events>>

\* Command::SendHlsHeader: the length prefix, then the encoded header.
SendHlsHeader ==
  LET header_data == Encode(Head(cmdq).resp) IN
  HlsCommand("SendHlsHeader", <<to_be_bytes(Len(header_data)), header_data>>, FALSE)

\* Command::SendHlsChunk: the length prefix, then the data.
SendHlsChunk ==
  LET data == Head(cmdq).data IN
  HlsCommand("SendHlsChunk", <<to_be_bytes(Len(data)), data>>, FALSE)

FinishHlsStreamKeepsEntry ==
  HlsCommand("FinishHlsStream", <<to_be_bytes(0)>>, FALSE)

\* Command::FinishHlsStream: the entry is removed, the terminator written.
FinishHlsStream ==
  HlsCommand("FinishHlsStream", <<to_be_bytes(0)>>, TRUE)

Room(s) == Window - Len(streams[s].out)

\* The peer's reader has gone and its read-half with it.
RecvDropped(s) == streams[s].rpc \in {"failed", "ended", "broken", "stopped"}

WriteFails(s) == ~conns[streams[s].conn].open \/ RecvDropped(s)

AcceptedUnbounded(buf, room) == {Len(buf)}

\* SendStream::write: how many bytes of buf one call may take.  It waits for
\* room (no value) and then takes what fits, at least one byte.
Accepted(buf, room) ==
  IF buf = <<>> THEN {0}
  ELSE IF room >= 1 THEN {Min(Len(buf), room)}
  ELSE {}

\* One `send.write(buf).await` of the command the loop is in; the count the
\* call returns is not looked at.  After the last one the loop replies.
HlsWrite ==
  /\ loopPc = "hls"
  /\ LET s == hlsOp.stream
         buf == Head(hlsOp.bufs)
         last == Len(hlsOp.bufs) = 1
     IN
       \/ /\ WriteFails(s)
          /\ HlsReply("err")
          /\ loopPc' = "select"
          /\ hlsOp' = NoOp
          /\ UNCHANGED streams
       \/ /\ ~WriteFails(s)
          /\ \E n \in Accepted(buf, Room(s)) :
               streams' = [streams EXCEPT
                 ![s].out = @ \o SubSeq(buf, 1, n),
                 ![s].fin = last /\ hlsOp.kind = "FinishHlsStream"]
          /\ IF last
               THEN HlsReply("ok") /\ loopPc' = "select" /\ hlsOp' = NoOp
               ELSE /\ hlsOp' = [hlsOp EXCEPT !.bufs = Tail(@)]
                    /\ UNCHANGED <<loopPc, hlsCalls>>
  /\ UNCHANGED <<hostVars, endpointOpen, relay_connected, cmdVars, regVars,
                 pending_responses, hls_streams, nextId, events>>

(* ------------------------------------------------------------------ *)
(* Server push: handle_send_hls_request on the remote peer             *)
(* ------------------------------------------------------------------ *)
\* The stream after a read_exact has filled its buffer with b.
AfterRead(st, b) ==
  CASE st.rpc = "hdr_len" ->
         IF from_be_bytes(b) = 0
           THEN [st EXCEPT !.rpc = "failed", !.result = Result("err", NoMsg)]
           ELSE [st EXCEPT !.rpc = "hdr_data", !.need = from_be_bytes(b)]
    [] st.rpc = "hdr_data" ->
         LET r == Decode(b, ResponseVariants) IN
         IF r # DecodeError /\ r.variant = "HlsHeader"
           THEN [st EXCEPT !.rpc = "chunk_len", !.need = 4,
                           !.result = Result("ok", r)]
           ELSE [st EXCEPT !.rpc = "failed", !.result = Result("err", NoMsg)]
    [] st.rpc = "chunk_len" ->
         IF from_be_bytes(b) = 0
           THEN [st EXCEPT !.rpc = "ended"]
           ELSE [st EXCEPT !.rpc = "chunk_data", !.need = from_be_bytes(b)]
    [] st.rpc = "chunk_data" ->
         [st EXCEPT !.rpc = "push", !.buf = b]

\* The stream after a read_exact has failed.
AfterReadError(st) ==
  IF st.rpc \in {"hdr_len", "hdr_data"}
    THEN [st EXCEPT !.rpc = "failed", !.buf = <<>>, !.result = Result("err", NoMsg)]
    ELSE [st EXCEPT !.rpc = "broken", !.buf = <<>>]

\* recv.read_exact makes progress: one more byte arrives in its buffer, or
\* the stream has ended short of it.
HlsRead ==
  /\ \E s \in 1..Len(streams) :
       LET st == streams[s] IN
       /\ st.rpc \in {"hdr_len", "hdr_data", "chunk_len", "chunk_data"}
       /\ \/ /\ conns[st.conn].open
             /\ st.out # <<>>
             /\ LET b == Append(st.buf, Head(st.out))
                    rd == [st EXCEPT !.out = Tail(@), !.buf = b]
                IN streams' = [streams EXCEPT ![s] =
                     IF Len(b) = st.need
                       THEN AfterRead([rd EXCEPT !.buf = <<>>], b) ELSE rd]
          \/ /\ ~conns[st.conn].open \/ (st.out = <<>> /\ st.fin)
             /\ streams' = [streams EXCEPT ![s] = AfterReadError(st)]
  /\ UNCHANGED <<hostVars, loopVars, cmdVars, regVars, pending_responses, hls_streams,
                 nextId, events, hlsVars>>

\* chunk_tx.send(chunk_data).await: waits while the queue is full, fails once
\* the receiver is gone.
HlsPush ==
  /\ \E s \in 1..Len(streams) :
       LET st == streams[s] IN
       /\ st.rpc = "push"
       /\ \/ /\ ~st.rxOpen
             /\ streams' = [streams EXCEPT ![s].rpc = "stopped", ![s].buf = <<>>]
          \/ /\ st.rxOpen
             /\ Len(st.queue) < ChunkQueueCapacity
             /\ streams' = [streams EXCEPT ![s].queue = Append(@, st.buf),
                                           ![s].rpc = "chunk_len",
                                           ![s].need = 4,
                                           ![s].buf = <<>>]
  /\ UNCHANGED <<hostVars, loopVars, cmdVars, regVars, pending_responses, hls_streams,
                 nextId, events, hlsVars>>

\* The consumer of HlsStreamResponse.chunk_rx takes the next chunk.
ConsumerTake ==
  /\ \E s \in 1..Len(streams) :
       /\ streams[s].rxOpen
       /\ streams[s].queue # <<>>
       /\ Len(streams[s].taken) < MaxTakes
       /\ streams' = [streams EXCEPT ![s].queue = Tail(@),
                                     ![s].taken = Append(@, Head(streams[s].queue))]
  /\ UNCHANGED <<hostVars, loopVars, cmdVars, regVars, pending_responses, hls_streams,
                 nextId, events, hlsVars>>

\* The consumer drops HlsStreamResponse, and the receiver with it.
ConsumerDrop ==
  /\ \E s \in 1..Len(streams) :
       /\ streams[s].rxOpen
       /\ streams[s].rpc \notin {"none", "hdr_len", "hdr_data", "failed"}
       /\ streams' = [streams EXCEPT ![s].rxOpen = FALSE, ![s].queue = <<>>]
  /\ UNCHANGED <<hostVars, loopVars, cmdVars, regVars, pending_responses, hls_streams,
                 nextId, events, hlsVars>>

\* The loop is in select!, p1 is connected and has sent an HlsStream request.
InitHls ==
  /\ loopPc = "select"
  /\ endpointOpen = TRUE
  /\ relay_connected = TRUE
  /\ cmdOpen = TRUE
  /\ cmdq = <<>>
  /\ cmdsIssued = 0
  /\ lastStats = NoStats
  /\ connected_peers = {<<"p1", 1>>}
  /\ conns = <<NewConn("p1", {"relay"})>>
  /\ pathChanges = 0
  /\ streams = <<NewHlsStream(1)>>
  /\ pending_responses = {}
  /\ hls_streams = {}
  /\ nextId = 1
  /\ events = <<Event("Connected", "p1", 1, "Relay", 0, 0)>>
  /\ hlsOp = NoOp
  /\ hlsCalls = <<>>
  /\ replies = <<>>
  /\ outReq = NoOut
  /\ evRead = 0
  /\ logged = 0
  /\ reader_tasks = 0
  /\ keypair_file = NoFile
  /\ hosts = <<>>
  /\ codec = NoCodec
  /\ LOG_TX = 1

NextHls ==
  \/ HandleStream
  \/ HostSendHlsHeader
  \/ HostSendHlsChunk
  \/ HostFinishHlsStream
  \/ SendHlsHeader
  \/ SendHlsChunk
  \/ FinishHlsStream
  \/ HlsWrite
  \/ HlsRead
  \/ HlsPush
  \/ ConsumerTake
  \/ ConsumerDrop
  \/ ConnectionClose

SpecHls == InitHls /\ [][NextHls]_vars

\* The embedder's calls on stream id, in order.
CallsOn(id) == SelectSeq(hlsCalls, LAMBDA c : c.id = id)

\* A header, then chunks, then finish, every call having returned Ok.
CompleteRun(cs) ==
  /\ Len(cs) >= 2
  /\ cs[1].kind = "SendHlsHeader"
  /\ cs[Len(cs)].kind = "FinishHlsStream"
  /\ \A i \in 2..(Len(cs) - 1) : cs[i].kind = "SendHlsChunk"
  /\ \A i \in 1..Len(cs) : cs[i].result = "ok"

ChunksOf(cs) == [i \in 1..(Len(cs) - 2) |-> cs[i + 1].data]

IsPrefix(a, b) == Len(a) <= Len(b) /\ a = SubSeq(b, 1, Len(a))

\* C3: when a header, chunks c1..cn and finish have been sent on a stream (the
\* connection and the consumer still there), the client's call returns that
\* header and its chunk receiver yields c1..cn in order, no more and no less,
\* whatever the number of bytes single transport writes accepted.
HlsFramingExact ==
  \A s \in 1..Len(streams) :
    LET st == streams[s]
        cs == CallsOn(st.id)
        got == st.taken \o st.queue
    IN
      (st.st = "hls" /\ CompleteRun(cs) /\ conns[st.conn].open /\ st.rxOpen)
      => /\ IsPrefix(got, ChunksOf(cs))
         /\ st.result.kind # "err"
         /\ st.result.kind = "ok" => st.result.resp = HlsHeaderValue
         /\ RecvDropped(s) => st.rpc = "ended" /\ got = ChunksOf(cs)

\* C10: the client reader takes a server-push stream as ended (a zero length
\* prefix read) only once the server has been asked to finish it: no
\* SendHlsChunk, whatever its data, ends the stream.
ReaderEndsOnlyAfterFinish ==
  \A s \in 1..Len(streams) :
    streams[s].rpc = "ended" =>
      \E i \in 1..Len(hlsCalls) :
        hlsCalls[i].kind = "FinishHlsStream" /\ hlsCalls[i].id = streams[s].id

\* The step in which the loop takes a SendHlsChunk or FinishHlsStream off the
\* command channel with a stream id that the stream table does not hold.
UnknownStreamHandled ==
  /\ loopPc = "select"
  /\ cmdq # <<>>
  /\ Head(cmdq).kind \in {"SendHlsChunk", "FinishHlsStream"}
  /\ cmdq' = Tail(cmdq)
  /\ \A e \in hls_streams : e[1] # Head(cmdq).id

\* C14 as stated: such a command changes no table, writes nothing to any
\* stream, and reports no error to its caller.
UnknownStreamIsSilent ==
  [][UnknownStreamHandled =>
       /\ UNCHANGED <<hls_streams, pending_responses, connected_peers, streams>>
       /\ hlsCalls'[Len(hlsCalls')].result # "err"]_vars

\* C14 as amended: such a command changes no table and writes nothing to any
\* stream, the loop is back in select!, and the caller gets its Err.
UnknownStreamIsError ==
  [][UnknownStreamHandled =>
       /\ UNCHANGED <<hls_streams, pending_responses, connected_peers, streams>>
       /\ loopPc' = "select" /\ hlsOp' = NoOp
       /\ Len(hlsCalls') = Len(hlsCalls)
       /\ hlsCalls'[Len(hlsCalls')].result = "err"]_vars

\* On a live connection a stream was finished, then a chunk and a second
\* finish for it were refused.
UnknownStreamRefused ==
  /\ Len(hlsCalls) = 3
  /\ hlsCalls[1].kind = "FinishHlsStream" /\ hlsCalls[1].result = "ok"
  /\ hlsCalls[2].kind = "SendHlsChunk" /\ hlsCalls[2].result = "err"
  /\ hlsCalls[3].kind = "FinishHlsStream" /\ hlsCalls[3].result = "err"
  /\ hlsCalls[2].id = hlsCalls[1].id /\ hlsCalls[3].id = hlsCalls[1].id
  /\ \A c \in 1..Len(conns) : conns[c].open

(* ------------------------------------------------------------------ *)
(* Server push: a long stream of chunks and a slow consumer            *)
(* ------------------------------------------------------------------ *)
\* Chunks already sent, read and queued when the consumer starts to lag.
Queued == ChunkQueueCapacity - 1

Repeat(x, n) == [i \in 1..n |-> x]

HlsCall(k, d) ==
  [kind |-> k, id |-> 1, data |-> d, result |-> "ok", full |-> FALSE, takes |-> 0]

\* The header of p1's stream and `Queued` chunks have been sent and read; the
\* chunks sit in the client's queue, the consumer has taken none yet.
InitBp ==
  /\ loopPc = "select"
  /\ endpointOpen = TRUE
  /\ relay_connected = TRUE
  /\ cmdOpen = TRUE
  /\ cmdq = <<>>
  /\ cmdsIssued = 0
  /\ lastStats = NoStats
  /\ connected_peers = {<<"p1", 1>>}
  /\ conns = <<NewConn("p1", {"relay"})>>
  /\ pathChanges = 0
  /\ streams =
       <<[NewHlsStream(1) EXCEPT !.st = "hls", !.id = 1, !.rpc = "chunk_len",
                                 !.result = Result("ok", HlsHeaderValue),
                                 !.queue = Repeat(<<1>>, Queued)]>>
  /\ pending_responses = {}
  /\ hls_streams = {<<1, 1>>}
  /\ nextId = 2
  /\ events = <<Event("Connected", "p1", 1, "Relay", 0, 0),
                Event("HlsStreamRequest", "p1", 1, "None", 1, 1)>>
  /\ hlsOp = NoOp
  /\ hlsCalls = <<HlsCall("SendHlsHeader", <<>>)>>
                  \o Repeat(HlsCall("SendHlsChunk", <<1>>), Queued)
  /\ replies = <<>>
  /\ outReq = NoOut
  /\ evRead = 0
  /\ logged = 0
  /\ reader_tasks = 0
  /\ keypair_file = NoFile
  /\ hosts = <<>>
  /\ codec = NoCodec
  /\ LOG_TX = 1

HostSendHlsChunks ==
  HostHlsCall("SendHlsChunk", KnownStreamIds, {<<1>>}, MaxBpCalls)

NextBp ==
  \/ HostSendHlsChunks
  \/ SendHlsChunk
  \/ HlsWrite
  \/ HlsRead
  \/ HlsPush
  \/ ConsumerTake
  \/ ConsumerDrop
  \/ ConnectionClose

SpecBp == InitBp /\ [][NextBp]_vars

\* C8 as stated: a send_hls_chunk called while the client's queue held 16
\* undelivered chunks does not return (connection and consumer still there)
\* unless the consumer has taken an entry since the call.
SendWaitsForConsumer ==
  [][\A i \in 1..Len(hlsCalls) :
       LET c == hlsCalls[i]
           s == StreamOfId(c.id)
       IN
         (/\ c.kind = "SendHlsChunk" /\ c.full
          /\ c.result = "pending" /\ hlsCalls'[i].result = "ok"
          /\ streams'[s].rxOpen /\ conns'[streams[s].conn].open)
         => Len(streams'[s].taken) > c.takes]_vars

\* The client's queue is full, its reader waits with one more chunk in hand,
\* and the unread bytes of the stream have used the window up.
Backpressured(s) ==
  /\ streams[s].st = "hls"
  /\ conns[streams[s].conn].open
  /\ streams[s].rxOpen
  /\ Len(streams[s].queue) = ChunkQueueCapacity
  /\ streams[s].rpc = "push"
  /\ Room(s) <= 0

\* The calls that have returned.
Returned == {i \in 1..Len(hlsCalls) : hlsCalls[i].result # "pending"}

\* C8 as amended: while the queue is full, the reader waits on it and the
\* stream's window is used up, no send_hls_chunk on that stream returns; only
\* the consumer taking an entry (or the receiver or the connection going
\* away) ends that state.
SendWaitsWhenWindowExhausted ==
  [][(\E s \in 1..Len(streams) : Backpressured(s)) => Returned' = Returned]_vars

\* A send_hls_chunk is held back: the loop is in it, with the queue full, the
\* reader waiting and the window used up.
SenderHeldBack ==
  \E s \in 1..Len(streams) :
    /\ Backpressured(s)
    /\ loopPc = "hls" /\ hlsOp.kind = "SendHlsChunk" /\ hlsOp.stream = s

(* ------------------------------------------------------------------ *)
(* Outbound requests: SendRequest and SendHlsRequest                   *)
(* ------------------------------------------------------------------ *)
\* What the embedder passes as node_id: a bare node id, an address blob, or
\* text that starts with a brace and is no address blob.
RequestTargets ==
  [form : {"bare", "blob"}, id : Peers] \cup {[form |-> "garbage", id |-> "p1"]}

\* The parameter as a string.
TargetText(t) ==
  IF t.form = "bare" THEN t.id ELSE IF t.form = "blob" THEN "{blob}" ELSE "{garbage"

\* The first lines of handle_send_request and handle_send_hls_request.
actual_node_id(t) ==
  IF t.form # "bare"
    THEN LET a == endpoint_addr_from_json(t) IN IF a.ok THEN a.id ELSE TargetText(t)
    ELSE TargetText(t)

LookupAny(reg, id) == reg

\* connected_peers.get(&actual_node_id).
Lookup(reg, id) == {e \in reg : e[1] = id}

OutboundRequests == {Msg("Ping", 0), Msg("Pairing", 1)}

\* Host::send_request.
HostSendRequest ==
  /\ \E t \in RequestTargets, m \in OutboundRequests :
       \/ Enqueue(Cmd("SendRequest", t, 0, m)) /\ UNCHANGED replies
       \/ SendFails(Reply("SendRequest", FALSE, "send_failed", t.id, NoMsg))
  /\ UNCHANGED <<LOG_TX, codec, hosts, keypair_file, reader_tasks, outReq, evRead, logged, hlsVars, loopVars, cmdOpen, lastStats, regVars,
                 reqVars, events>>

\* Host::send_hls_request.
HostSendHlsRequest ==
  /\ \E t \in RequestTargets :
       \/ Enqueue(Cmd("SendHlsRequest", t, 0, Msg("HlsStream", 1))) /\ UNCHANGED replies
       \/ SendFails(Reply("SendHlsRequest", FALSE, "send_failed", t.id, NoMsg))
  /\ UNCHANGED <<LOG_TX, codec, hosts, keypair_file, reader_tasks, outReq, evRead, logged, hlsVars, loopVars, cmdOpen, lastStats, regVars,
                 reqVars, events>>

\* Both handlers up to the point where they wait for the peer: node id,
\* registry lookup, open_bi, write_all, finish.  The loop awaits the handler,
\* so it takes no other command until the handler returns.
OutboundStart(k) ==
  /\ Receive(k)
  /\ LET c == Head(cmdq)
         id == actual_node_id(c.addr)
         hit == Lookup(connected_peers, id)
     IN
       \/ /\ hit = {}
          /\ replies' =
               Append(replies, Reply(k, FALSE, "Not connected to peer", id, NoMsg))
          /\ UNCHANGED <<loopPc, outReq>>
       \/ \E e \in hit :
            /\ loopPc' = "request"
            /\ outReq' = [kind |-> k, conn |-> e[2], frame |-> Encode(c.resp),
                          answered |-> FALSE, answer |-> <<>>]
            /\ UNCHANGED replies
  /\ UNCHANGED <<LOG_TX, codec, hosts, keypair_file, reader_tasks, evRead, logged, hlsVars, endpointOpen, relay_connected, cmdOpen, cmdsIssued,
                 lastStats, regVars, reqVars, events>>

handle_send_request == OutboundStart("SendRequest")

handle_send_hls_request == OutboundStart("SendHlsRequest")

\* A length-prefixed frame.
Framed(bytes) == to_be_bytes(Len(bytes)) \o bytes

\* What the peer at the other end may have put on the stream when it ends.
RemoteReplies ==
  {Encode(Pong), Encode(Msg("Pairing", 1)), Encode(TimeoutResponse), <<255>>}

RemoteHlsReplies ==
  {<<>>, to_be_bytes(0), to_be_bytes(2), Framed(Encode(HlsHeaderValue)),
   Framed(Encode(TimeoutResponse)), Framed(Encode(Pong)), Framed(<<255>>)}

\* read_to_end and serde_cbor::from_slice of handle_send_request.
ReadResponse(p, bytes) ==
  LET response_data == read_to_end(bytes, ReadLimit)
      r == Decode(response_data.data, ResponseVariants)
  IN
    IF ~response_data.ok
      THEN Reply("SendRequest", FALSE, "Failed to read response", p, NoMsg)
    ELSE IF r = DecodeError
      THEN Reply("SendRequest", FALSE, "Failed to decode response", p, NoMsg)
      ELSE Reply("SendRequest", TRUE, "ok", p, r)

ReadHlsHeaderAny(p, bytes) ==
  LET Err(tag) == Reply("SendHlsRequest", FALSE, tag, p, NoMsg) IN
    IF Len(bytes) < 4 THEN Err("Failed to read header length")
    ELSE LET header_len == from_be_bytes(SubSeq(bytes, 1, 4)) IN
      IF header_len = 0 THEN Err("Empty header received")
      ELSE IF Len(bytes) < 4 + header_len THEN Err("Failed to read header")
      ELSE LET r == Decode(SubSeq(bytes, 5, 4 + header_len), ResponseVariants) IN
        IF r = DecodeError THEN Err("Failed to decode header")
        ELSE Reply("SendHlsRequest", TRUE, "ok", p, r)

\* The header part of handle_send_hls_request.
ReadHlsHeader(p, bytes) ==
  LET Err(tag) == Reply("SendHlsRequest", FALSE, tag, p, NoMsg) IN
    IF Len(bytes) < 4 THEN Err("Failed to read header length")
    ELSE LET header_len == from_be_bytes(SubSeq(bytes, 1, 4)) IN
      IF header_len = 0 THEN Err("Empty header received")
      ELSE IF Len(bytes) < 4 + header_len THEN Err("Failed to read header")
      ELSE LET r == Decode(SubSeq(bytes, 5, 4 + header_len), ResponseVariants) IN
        IF r = DecodeError THEN Err("Failed to decode header")
        ELSE IF r.variant = "HlsHeader" THEN Reply("SendHlsRequest", TRUE, "ok", p, r)
        ELSE IF r.variant = "Error"
          THEN Reply("SendHlsRequest", FALSE, "Server error", p, r)
        ELSE Err("Unexpected response type")

\* The peer's side of the stream the handler opened: the bytes it has written
\* when it finishes its send-half.
RemoteAnswerFrom(single, hls) ==
  /\ loopPc = "request"
  /\ ~outReq.answered
  /\ conns[outReq.conn].open
  /\ \E b \in (IF outReq.kind = "SendRequest" THEN single ELSE hls) :
       outReq' = [outReq EXCEPT !.answered = TRUE, !.answer = b]
  /\ UNCHANGED <<LOG_TX, codec, hosts, keypair_file, reader_tasks, replies, evRead, logged, hlsVars, loopVars, cmdVars, regVars,
                 reqVars, events>>

RemoteAnswer == RemoteAnswerFrom(RemoteReplies, RemoteHlsReplies)

\* The rest of the handler and reply.send(result): the stream could not be
\* opened or broke, or the peer's bytes are read and decoded.  A header that
\* passed the match is followed by the spawn of the chunk reader task.
OutboundReturn(k) ==
  /\ loopPc = "request"
  /\ outReq.kind = k
  /\ LET p == conns[outReq.conn].peer
         r == IF ~outReq.answered
                THEN Reply(k, FALSE, "Failed to open stream", p, NoMsg)
                ELSE IF k = "SendRequest"
                  THEN ReadResponse(p, outReq.answer)
                  ELSE ReadHlsHeader(p, outReq.answer)
     IN
       /\ outReq.answered \/ ~conns[outReq.conn].open
       /\ replies' = Append(replies, r)
       /\ reader_tasks' =
            IF k = "SendHlsRequest" /\ r.ok THEN reader_tasks + 1 ELSE reader_tasks
  /\ loopPc' = "select"
  /\ outReq' = NoOut
  /\ UNCHANGED <<LOG_TX, codec, hosts, keypair_file, evRead, logged, hlsVars, endpointOpen, relay_connected, cmdVars, regVars,
                 reqVars, events>>

handle_send_request_read == OutboundReturn("SendRequest")

handle_send_hls_request_read == OutboundReturn("SendHlsRequest")

\* One peer is connected; the embedder sends requests to it and to others.
NextOut ==
  \/ HostSendRequest
  \/ HostSendHlsRequest
  \/ HostDial
  \/ handle_dial
  \/ handle_send_request
  \/ handle_send_request_read
  \/ handle_send_hls_request
  \/ handle_send_hls_request_read
  \/ RemoteAnswer
  \/ ConnectionClose

SpecOut == InitOneConn /\ [][NextOut]_vars

\* The step in which the loop takes a SendRequest or SendHlsRequest off the
\* command channel.
OutboundHandled ==
  /\ loopPc = "select"
  /\ cmdq # <<>>
  /\ Head(cmdq).kind \in {"SendRequest", "SendHlsRequest"}
  /\ cmdq' = Tail(cmdq)

\* C12: a SendRequest or SendHlsRequest whose peer id has no registry entry
\* replies Err("Not connected to peer: <id>") with that id, opens no stream
\* and changes neither the registry nor the pending tables.
NotConnectedIsError ==
  [][(/\ OutboundHandled
      /\ \A e \in connected_peers : e[1] # actual_node_id(Head(cmdq).addr))
     =>
       /\ replies' = Append(replies,
            Reply(Head(cmdq).kind, FALSE, "Not connected to peer",
                  actual_node_id(Head(cmdq).addr), NoMsg))
       /\ outReq' = NoOut /\ loopPc' = "select"
       /\ UNCHANGED <<connected_peers, conns, streams, pending_responses,
                      hls_streams>>]_vars

\* Both commands have been refused for a peer that is not registered, while
\* another peer is.
NotConnectedReturned ==
  /\ connected_peers # {}
  /\ \E i, j \in 1..Len(replies) :
       /\ replies[i] = Reply("SendRequest", FALSE, "Not connected to peer", "p2", NoMsg)
       /\ replies[j].kind = "SendHlsRequest"
       /\ replies[j].tag = "Not connected to peer"

\* The step in which handle_send_hls_request returns after it has opened a
\* stream.
HlsRequestReturns ==
  /\ loopPc = "request"
  /\ outReq.kind = "SendHlsRequest"
  /\ loopPc' = "select"

\* The value of the first length-prefixed frame of `bytes`, DecodeError when
\* the frame is cut short, empty or no response at all.
FirstFrame(bytes) ==
  IF Len(bytes) >= 4 /\ Len(bytes) >= 4 + from_be_bytes(SubSeq(bytes, 1, 4))
    THEN Decode(SubSeq(bytes, 5, 4 + from_be_bytes(SubSeq(bytes, 1, 4))),
                ResponseVariants)
    ELSE DecodeError

\* C23: SendHlsRequest returns Ok, with the header, only if the first frame
\* of the peer's answer decodes to HlsHeader; an Error(e) frame gives an
\* error that carries e; any other variant, an empty frame and a frame that
\* does not decode give a protocol error; in every error case no chunk reader
\* task is started, and the connection stays registered in all cases.
HlsHeaderGate ==
  [][HlsRequestReturns =>
       LET r == replies'[Len(replies')]
           first == IF outReq.answered THEN FirstFrame(outReq.answer) ELSE DecodeError
       IN
         /\ Len(replies') = Len(replies) + 1
         /\ r.kind = "SendHlsRequest"
         /\ r.ok <=> first.variant = "HlsHeader"
         /\ r.ok => r.msg = first /\ reader_tasks' = reader_tasks + 1
         /\ first.variant = "Error" => r.tag = "Server error" /\ r.msg = first
         /\ first.variant \notin {"HlsHeader", "Error"} =>
              r.tag \in {"Failed to open stream", "Failed to read header length",
                         "Empty header received", "Failed to read header",
                         "Failed to decode header", "Unexpected response type"}
         /\ ~r.ok => reader_tasks' = reader_tasks
         /\ connected_peers' = connected_peers
         /\ conns' = conns]_vars

\* One call has returned a header and started its reader, another has been
\* answered with the server's error, and the peer is still registered.
HlsHeaderGateSeen ==
  /\ reader_tasks = 1
  /\ connected_peers # {}
  /\ \E i, j \in 1..Len(replies) :
       /\ replies[i] = Reply("SendHlsRequest", TRUE, "ok", "p1", HlsHeaderValue)
       /\ replies[j] = Reply("SendHlsRequest", FALSE, "Server error", "p1", TimeoutResponse)

(* ------------------------------------------------------------------ *)
(* The shared lock while a server push is being written                *)
(* ------------------------------------------------------------------ *)
\* A peer with an HlsStream request out opens further streams while the
\* embedder pushes the header and chunks.
NextLock ==
  \/ HandleStream
  \/ ClientSendRequest
  \/ HostSendHlsHeader
  \/ HostSendHlsChunk
  \/ SendHlsHeader
  \/ SendHlsChunk
  \/ HlsWrite
  \/ HlsRead
  \/ HlsPush

SpecLock == InitHls /\ [][NextLock]_vars

\* A connection task is at accept_bi with a stream of its connection to take.
InboundWaiting ==
  /\ RuntimeAlive
  /\ \E c \in 1..Len(conns) :
       /\ conns[c].task = "run" /\ conns[c].open
       /\ AtAcceptBi(c)
       /\ NextInbound(c) # {}

\* C27: the lock is not held across transport I/O, so a stream write stalled
\* by flow control does not delay a table operation: whenever a connection
\* task has an inbound stream to take, either it can read and register it, or
\* the lock's holder is not waiting for room on a stream.
LockNeverHeldAcrossWrite ==
  InboundWaiting => (ENABLED HandleStream \/ ENABLED HlsWrite)

(* ------------------------------------------------------------------ *)
(* Several inbound streams of one connection                           *)
(* ------------------------------------------------------------------ *)
\* A stream of a peer has been opened and part of its request has arrived;
\* the rest and the end of the stream have not (the peer writes in pieces,
\* or the packets that carry them are late).
ClientOpenStream ==
  /\ Len(streams) < MaxStreams
  /\ \E c \in 1..Len(conns), f \in {Encode(Msg("Ping", 0)), Encode(Msg("Pairing", 1))} :
       /\ conns[c].open
       /\ streams' = Append(streams, [NewStream(c, f) EXCEPT !.st = "open"])
  /\ UNCHANGED <<hostVars, hlsVars, loopVars, cmdVars, regVars, pending_responses, hls_streams,
                 nextId, events>>

\* The end of the request of some stream arrives.
ClientFinishStream ==
  /\ \E s \in 1..Len(streams) :
       /\ streams[s].st = "open"
       /\ conns[streams[s].conn].open
       /\ streams' = [streams EXCEPT ![s].st = "sent"]
  /\ UNCHANGED <<hostVars, hlsVars, loopVars, cmdVars, regVars, pending_responses, hls_streams,
                 nextId, events>>

NextStreams ==
  \/ ClientOpenStream
  \/ ClientFinishStream
  \/ ClientReadResponse
  \/ HandleStream
  \/ HostSendResponse
  \/ SendResponse
  \/ ReplyDeliver
  \/ ConnectionClose

SpecStreams == InitOneConn /\ [][NextStreams]_vars

\* A stream of a live connection has its whole request in, and the task of
\* the connection is not inside a send on the event channel.
CompleteRequestWaiting ==
  /\ RuntimeAlive
  /\ \E s \in 1..Len(streams) :
       /\ streams[s].st = "sent"
       /\ conns[streams[s].conn].open
       /\ conns[streams[s].conn].task = "run"
       /\ AtAcceptBi(streams[s].conn)

\* C28: the inbound streams of a connection are serviced independently: a
\* stream whose request is complete can be read, decoded and announced
\* whether or not other streams of the connection are still unfinished.
StreamsServicedIndependently == CompleteRequestWaiting => ENABLED HandleStream

(* ------------------------------------------------------------------ *)
(* The stream table when a connection ends                             *)
(* ------------------------------------------------------------------ *)
\* A peer's HlsStream request is taken up and served, or not, and its
\* connection may close at any point.
NextClose ==
  \/ HandleStream
  \/ HostSendHlsHeader
  \/ HostFinishHlsStream
  \/ SendHlsHeader
  \/ FinishHlsStream
  \/ HlsWrite
  \/ HlsRead
  \/ ConnectionClose
  \/ ConnectionTaskExit

SpecClose == InitHls /\ [][NextClose]_vars

\* Disconnected has been emitted for connection c.
DisconnectedEmitted(c) ==
  \E i \in 1..Len(events) : events[i].type = "Disconnected" /\ events[i].conn = c

\* C30: a send-half is dropped on finish, timeout or connection error: once
\* Disconnected has been emitted for a connection, no send-half of a stream
\* of that connection is left in the stream table.
NoSendHalfAfterDisconnect ==
  \A e \in hls_streams : ~DisconnectedEmitted(streams[e[2]].conn)

(* ------------------------------------------------------------------ *)
(* What consumes an entry of the stream table                          *)
(* ------------------------------------------------------------------ *)
\* A peer's HlsStream request is served with header, chunks and finish in any
\* order and number, while its connection may close.
NextTable ==
  \/ HandleStream
  \/ HostSendHlsHeader
  \/ HostSendHlsChunk
  \/ HostFinishHlsStream
  \/ SendHlsHeader
  \/ SendHlsChunk
  \/ FinishHlsStream
  \/ HlsWrite
  \/ HlsRead
  \/ ConnectionClose

SpecTable == InitHls /\ [][NextTable]_vars

\* The step in which the loop takes a command of kind k off the channel.
HlsTaken(k) ==
  /\ loopPc = "select"
  /\ cmdq # <<>>
  /\ Head(cmdq).kind = k
  /\ cmdq' = Tail(cmdq)

\* C31: an entry of the stream table is consumed only by FinishHlsStream.
\* SendHlsHeader and SendHlsChunk never remove it, whether their writes
\* succeed or fail; FinishHlsStream for a known id always removes it, whether
\* the terminator is written or not; the id does not come back, and every
\* later command that names it finds no stream and writes nothing.
OnlyFinishConsumes ==
  /\ [](\A e \in hls_streams : e[1] < nextId)
  /\ [][/\ \A e \in hls_streams \ hls_streams' :
             HlsTaken("FinishHlsStream") /\ Head(cmdq).id = e[1]
        /\ \A e \in hls_streams' \ hls_streams : e[1] = nextId /\ nextId' > nextId
        /\ HlsTaken("FinishHlsStream") =>
             \A e \in hls_streams' : e[1] # Head(cmdq).id
        /\ \A k \in {"SendHlsHeader", "SendHlsChunk", "FinishHlsStream"} :
             (HlsTaken(k) /\ \A e \in hls_streams : e[1] # Head(cmdq).id)
             => /\ streams' = streams
                /\ hls_streams' = hls_streams
                /\ hlsOp' = NoOp /\ loopPc' = "select"]_vars

\* On a closed connection a header could not be written and left the entry,
\* the finish that followed failed as well and took the entry away, and the
\* chunk after it found no stream.
FinishConsumedOnFailure ==
  /\ Len(hlsCalls) = 3
  /\ hlsCalls[1].kind = "SendHlsHeader" /\ hlsCalls[1].result = "err"
  /\ hlsCalls[2].kind = "FinishHlsStream" /\ hlsCalls[2].result = "err"
  /\ hlsCalls[3].kind = "SendHlsChunk" /\ hlsCalls[3].result = "err"
  /\ \A i \in 1..3 : hlsCalls[i].id = 1
  /\ hls_streams = {}
  /\ streams[1].id = 1 /\ streams[1].out = <<>>
  /\ ~conns[1].open

(* ------------------------------------------------------------------ *)
(* A request frame that does not decode                                *)
(* ------------------------------------------------------------------ *)
\* The peer sends well-formed and malformed request frames.
ClientSendMalformed == ClientSendFrame(ClientFrames)

NextDecode ==
  \/ ClientSendMalformed
  \/ ClientReadResponse
  \/ HandleStream
  \/ HostSendResponse
  \/ SendResponse
  \/ ReplyDeliver
  \/ ConnectionClose
  \/ ConnectionTaskExit

SpecDecode == InitOneConn /\ [][NextDecode]_vars

\* The task of its connection gives up stream s in this step: from_slice has
\* failed on its frame.
DecodeFails(s) ==
  /\ streams[s].st = "sent" /\ streams'[s].st = "dropped"
  /\ Decode(streams[s].frame, RequestVariants) = DecodeError

\* Stream s was given up and neither announced, entered in a table nor
\* answered.
DroppedUntouched(s) ==
  /\ \A i \in 1..Len(events) : events[i].stream # s
  /\ \A e \in pending_responses \cup hls_streams : e[2] # s
  /\ streams[s].out = <<>> /\ ~streams[s].fin

\* On connection c a stream was given up and a later one is completely
\* received, with the connection alive.
LaterStreamWaiting(c) ==
  /\ conns[c].open /\ conns[c].task = "run" /\ AtAcceptBi(c)
  /\ \E s, t \in 1..Len(streams) :
       /\ s < t /\ streams[s].conn = c /\ streams[t].conn = c
       /\ streams[s].st = "dropped" /\ streams[t].st = "sent"

SubmitHlsHeader == HostHlsSubmit("SendHlsHeader", KnownStreamIds, {<<>>}, MaxHlsCalls)

SubmitHlsChunk == HostHlsSubmit("SendHlsChunk", KnownStreamIds, HlsChunks, MaxHlsCalls)

SubmitFinishHlsStream == HostHlsSubmit("FinishHlsStream", KnownStreamIds, {<<>>}, MaxHlsCalls)

NextOrder ==
  \/ HandleStream
  \/ SubmitHlsHeader
  \/ SubmitHlsChunk
  \/ SubmitFinishHlsStream
  \/ SendHlsHeader
  \/ SendHlsChunk
  \/ FinishHlsStream
  \/ HlsWrite
  \/ HlsRead
  \/ ConnectionClose

SpecOrder == InitHls /\ [][NextOrder]_vars

\* The calls whose command is in the queue, and the call the loop is handling.
InQueue == {cmdq[j].call : j \in 1..Len(cmdq)}

Handling == IF loopPc = "hls" THEN {hlsOp.call} ELSE {}

\* Every call before call n has returned.
AllReturnedBefore(n) == \A i \in 1..(n - 1) : hlsCalls[i].result # "pending"

\* C33: commands are applied in the order in which they were enqueued and one
\* at a time: the queue holds the commands in submission order, a command is
\* taken only when every earlier call has got its reply, and bytes go to a
\* stream only from the command in hand, so that header, chunk and finish of
\* a stream reach the wire in submission order.
CommandsInOrder ==
  /\ [](/\ \A j \in 1..Len(cmdq) : cmdq[j].call = Len(hlsCalls) - Len(cmdq) + j
        /\ loopPc = "hls" => hlsOp.call = Len(hlsCalls) - Len(cmdq)
        /\ \A i \in 1..Len(hlsCalls) :
             hlsCalls[i].result = "pending" <=> i \in InQueue \cup Handling)
  /\ [][/\ \A k \in {"SendHlsHeader", "SendHlsChunk", "FinishHlsStream"} :
             HlsTaken(k) =>
               /\ AllReturnedBefore(Head(cmdq).call)
               /\ hlsCalls[Head(cmdq).call].kind = k
               /\ hlsCalls[Head(cmdq).call].id = Head(cmdq).id
               /\ hlsCalls[Head(cmdq).call].data = Head(cmdq).data
        /\ \A s \in 1..Len(streams) :
             Len(streams'[s].out) > Len(streams[s].out) =>
               /\ loopPc = "hls" /\ hlsOp.stream = s
               /\ AllReturnedBefore(hlsOp.call)
               /\ hlsCalls[hlsOp.call].id = streams[s].id
               /\ IsPrefix(streams[s].out, streams'[s].out)
               /\ IsPrefix(SubSeq(streams'[s].out, Len(streams[s].out) + 1,
                                  Len(streams'[s].out)),
                           Head(hlsOp.bufs))]_vars

\* Header, chunk and finish of one stream were submitted before any of them
\* was handled; the header is on the wire and the chunk is being written
\* while the finish still waits in the queue.
ChunkWrittenFinishQueued ==
  /\ Len(hlsCalls) = 3
  /\ hlsCalls[1].kind = "SendHlsHeader" /\ hlsCalls[1].result = "ok"
  /\ hlsCalls[2].kind = "SendHlsChunk" /\ hlsCalls[2].data = <<1, 2>>
  /\ hlsCalls[2].result = "pending"
  /\ hlsCalls[3].kind = "FinishHlsStream" /\ hlsCalls[3].result = "pending"
  /\ loopPc = "hls" /\ hlsOp.call = 2 /\ hlsOp.bufs = <<<<1, 2>>>>
  /\ Len(cmdq) = 1 /\ cmdq[1].call = 3
  /\ streams[1].out # <<>>

(* ------------------------------------------------------------------ *)
(* The size limit of single-shot frames                                *)
(* ------------------------------------------------------------------ *)
\* n bytes of payload.
Pad(n) == [i \in 1..n |-> 0]

\* Custom frames of exactly ReadLimit bytes and of one byte more; the two
\* header bytes count.
LargeFrames ==
  {Encode(Msg("Custom", Pad(ReadLimit - 2))), Encode(Msg("Custom", Pad(ReadLimit - 1)))}

ClientSendLarge == ClientSendFrame(LargeFrames \cup {Encode(Msg("Pairing", 1))})

RemoteAnswerLarge == RemoteAnswerFrom(LargeFrames, LargeFrames)

NextLimit ==
  \/ ClientSendLarge
  \/ ClientReadResponse
  \/ HandleStream
  \/ HostSendRequest
  \/ handle_send_request
  \/ RemoteAnswerLarge
  \/ handle_send_request_read

SpecLimit == InitOneConn /\ [][NextLimit]_vars

\* The step in which handle_send_request returns after the peer has answered.
SendRequestReturns ==
  /\ loopPc = "request"
  /\ outReq.kind = "SendRequest"
  /\ outReq.answered
  /\ loopPc' = "select"

\* C24: a request frame longer than the read limit produces no RequestReceived and
\* no HlsStreamRequest event and no entry in either table, and a SendRequest
\* whose reply frame is longer than the limit returns Err.
LargeFrameNeverDelivered ==
  /\ [](\A s \in 1..Len(streams) :
          Len(streams[s].frame) > ReadLimit =>
            /\ \A i \in 1..Len(events) : events[i].stream # s
            /\ \A e \in pending_responses \cup hls_streams : e[2] # s)
  /\ [][(SendRequestReturns /\ Len(outReq.answer) > ReadLimit)
          => ~replies'[Len(replies')].ok]_vars

\* A request of one byte over the limit has been read and dropped, a request
\* of exactly the limit has been announced, and a SendRequest has failed on a
\* reply of one byte over the limit.
LargeFrameSeen ==
  /\ \E s \in 1..Len(streams) :
       Len(streams[s].frame) = ReadLimit + 1 /\ streams[s].st = "dropped"
  /\ \E s \in 1..Len(streams) :
       /\ Len(streams[s].frame) = ReadLimit
       /\ \E i \in 1..Len(events) :
            events[i].type = "RequestReceived" /\ events[i].stream = s
  /\ \E i \in 1..Len(replies) :
       replies[i] = Reply("SendRequest", FALSE, "Failed to read response", "p1", NoMsg)

(* ------------------------------------------------------------------ *)
(* Host::new and the keypair file                                      *)
(* ------------------------------------------------------------------ *)
MaxHosts == 3

\* bytes.len() == 32
KeyLen == 32

\* A secret key: 32 bytes, here all of them k.
Key(k) == [i \in 1..KeyLen |-> k]

\* What SecretKey::generate may return.
GeneratedKeys == {Key(3), Key(4)}

\* What may be at keypair_path before the first call: nothing, a key file
\* written by an earlier run, and files of 31 and of 33 bytes.
KeyFiles ==
  {NoFile, File(Key(1)), File(Key(2)), File(SubSeq(Key(1), 1, KeyLen - 1)),
   File(Key(1) \o <<1>>)}

\* SecretKey::public: a function of the secret bytes that is not the
\* identity.
public(sk) == [i \in 1..KeyLen |-> (7 * sk[i] + i) % 256]

LoadableNever(f) == FALSE

\* std::fs::read(path) succeeded and returned 32 bytes.
Loadable(f) == f.exists /\ Len(f.bytes) = KeyLen

\* Host::new(config): load_or_generate_keypair on config.keypair_path, either
\* None or the one path of the model, and the node id it returns.  A generated
\* key is written to the path if there is one; the write may fail.
HostNew ==
  /\ Len(hosts) < MaxHosts
  /\ \E path \in {"none", "p"} :
       \/ /\ path = "p"
          /\ Loadable(keypair_file)
          /\ hosts' = Append(hosts, [path |-> path, before |-> keypair_file,
                                     node_id |-> public(keypair_file.bytes),
                                     loop |-> "spawned", events |-> <<>>])
          /\ UNCHANGED keypair_file
       \/ /\ path = "none" \/ ~Loadable(keypair_file)
          /\ \E sk \in GeneratedKeys :
               /\ hosts' = Append(hosts, [path |-> path, before |-> keypair_file,
                                          node_id |-> public(sk),
                                          loop |-> "spawned", events |-> <<>>])
               /\ \/ path = "p" /\ keypair_file' = File(sk)
                  \/ UNCHANGED keypair_file
  /\ UNCHANGED <<LOG_TX, codec, replies, outReq, evRead, logged, reader_tasks, hlsVars, loopVars, cmdVars,
                 regVars, reqVars, events>>

\* No host has been made yet; the file is any of KeyFiles.
InitKey ==
  /\ loopPc = "bind"
  /\ endpointOpen = FALSE
  /\ relay_connected = FALSE
  /\ events = <<>>
  /\ IdleHost
  /\ keypair_file \in KeyFiles
  /\ codec = NoCodec
  /\ LOG_TX = 0

NextKey == HostNew

SpecKey == InitKey /\ [][NextKey]_vars

\* C25: when the file at the keypair path exists and holds exactly 32 bytes,
\* two consecutive calls of Host::new with that path return the same node
\* id, and neither call changes the file.
KeypairIsStable ==
  /\ [](\A i \in 1..(Len(hosts) - 1) :
          (/\ hosts[i].path = "p"
           /\ hosts[i + 1].path = "p"
           /\ hosts[i].before.exists
           /\ Len(hosts[i].before.bytes) = KeyLen)
          => /\ hosts[i + 1].node_id = hosts[i].node_id
             /\ hosts[i + 1].before = hosts[i].before)
  /\ [][(/\ Len(hosts') > Len(hosts)
         /\ hosts'[Len(hosts')].path = "p"
         /\ keypair_file.exists
         /\ Len(keypair_file.bytes) = KeyLen)
        => keypair_file' = keypair_file]_vars

\* Two calls in a row have loaded the key an earlier run left in the file.
KeypairLoadedTwice ==
  /\ Len(hosts) >= 2
  /\ hosts[1].path = "p" /\ hosts[2].path = "p"
  /\ hosts[1].before = File(Key(2))
  /\ hosts[2].node_id = public(Key(2))
  /\ keypair_file = File(Key(2))

(* ------------------------------------------------------------------ *)
(* serde_cbor::to_vec and serde_cbor::from_slice, field by field       *)
(* ------------------------------------------------------------------ *)
\* The protocol parts above keep one number for a payload.  Here a value has
\* the fields of its struct.  The body of a value is the sequence of its
\* field values, and a field value is a sequence as well: <<x>> for a scalar
\* and for Some(x), <<>> for None, the elements for a Vec.
\*
\* Field kinds: "text" String, "uint" u16/u32/u64, "bool", "text?" and "uint?"
\* Option of those, "bytes" Vec<u8>, "texts" Vec<String>.
Struct(kinds) == [wrap |-> "struct", fields |-> kinds]
Newtype(kind) == [wrap |-> "bare", fields |-> <<kind>>]
Unit == [wrap |-> "unit", fields |-> <<>>]

\* enum MydiaRequest, in the order of its declaration.
MydiaRequest ==
  << <<"Ping", Unit>>,
     <<"Pairing", Struct(<<"text", "text", "text", "text?">>)>>,
     <<"ReadMedia", Struct(<<"text", "uint", "uint">>)>>,
     <<"GraphQL", Struct(<<"text", "text?", "text?", "text?">>)>>,
     <<"HlsStream", Struct(<<"text", "text", "uint?", "uint?", "text?">>)>>,
     <<"BlobDownload", Struct(<<"text", "text?">>)>>,
     <<"Custom", Newtype("bytes")>> >>

\* enum MydiaResponse.
MydiaResponse ==
  << <<"Pong", Unit>>,
     <<"Pairing", Struct(<<"bool", "text?", "text?", "text?", "text?", "texts">>)>>,
     <<"MediaChunk", Newtype("bytes")>>,
     <<"GraphQL", Struct(<<"text?", "text?">>)>>,
     <<"HlsHeader", Struct(<<"uint", "text", "uint", "text?", "text?">>)>>,
     <<"BlobDownload", Struct(<<"bool", "text?", "text?", "uint?", "text?">>)>>,
     <<"Custom", Newtype("bytes")>>,
     <<"Error", Newtype("text")>> >>

IsVec(kind) == kind \in {"bytes", "texts"}
IsOpt(kind) == kind \in {"text?", "uint?"}
BaseOf(kind) ==
  IF kind \in {"text", "text?", "texts"} THEN "text"
  ELSE IF kind = "bool" THEN "bool" ELSE "uint"

\* CBOR major types; false, true and null are the simple values 20, 21, 22.
CborMajor == [uint |-> 0, text |-> 3, array |-> 4, map |-> 5, simple |-> 7]
CborNull == <<CborMajor.simple, 22>>

EncScalar(base, x) ==
  IF base = "bool" THEN <<CborMajor.simple, 20 + x>> ELSE <<CborMajor[base], x>>

RECURSIVE EncSeq(_, _)
EncSeq(base, xs) ==
  IF xs = <<>> THEN <<>> ELSE EncScalar(base, Head(xs)) \o EncSeq(base, Tail(xs))

EncItemNoneAsZero(kind, val) ==
  IF IsVec(kind) THEN <<CborMajor.array, Len(val)>> \o EncSeq(BaseOf(kind), val)
  ELSE IF IsOpt(kind) /\ val = <<>> THEN EncScalar(BaseOf(kind), 0)
  ELSE EncScalar(BaseOf(kind), val[1])

\* Serialize of one field: a Vec is an array, None is null, Some(x) is x.
EncItem(kind, val) ==
  IF IsVec(kind) THEN <<CborMajor.array, Len(val)>> \o EncSeq(BaseOf(kind), val)
  ELSE IF IsOpt(kind) /\ val = <<>> THEN CborNull
  ELSE EncScalar(BaseOf(kind), val[1])

\* The entries of a struct's map: the field's name (here its position) as a
\* text key, then the field.
RECURSIVE EncFields(_, _, _)
EncFields(kinds, vals, i) ==
  IF i > Len(kinds) THEN <<>>
  ELSE <<CborMajor.text, i>> \o EncItem(kinds[i], vals[i]) \o EncFields(kinds, vals, i + 1)

VariantIndex(enum, name) == CHOOSE k \in 1..Len(enum) : enum[k][1] = name

\* serde_cbor::to_vec of a value of `enum`: a unit variant is its name, any
\* other variant a map of one entry from its name to its content.
to_vec(enum, m) ==
  LET k == VariantIndex(enum, m.variant)
      shape == enum[k][2]
  IN
    IF shape.wrap = "unit" THEN <<CborMajor.text, k>>
    ELSE <<CborMajor.map, 1, CborMajor.text, k>> \o
         (IF shape.wrap = "bare"
            THEN EncItem(shape.fields[1], m.body[1])
            ELSE <<CborMajor.map, Len(shape.fields)>> \o EncFields(shape.fields, m.body, 1))

\* The result of a read that failed.
Bad == [ok |-> FALSE, val |-> <<>>, next |-> 0]

DecScalar(base, bytes, pos) ==
  IF pos + 1 > Len(bytes) THEN Bad
  ELSE IF base = "bool"
    THEN IF bytes[pos] = CborMajor.simple /\ bytes[pos + 1] \in {20, 21}
           THEN [ok |-> TRUE, val |-> <<bytes[pos + 1] - 20>>, next |-> pos + 2]
           ELSE Bad
  ELSE IF bytes[pos] = CborMajor[base]
    THEN [ok |-> TRUE, val |-> <<bytes[pos + 1]>>, next |-> pos + 2]
    ELSE Bad

RECURSIVE DecSeq(_, _, _, _)
DecSeq(base, bytes, pos, n) ==
  IF n = 0 THEN [ok |-> TRUE, val |-> <<>>, next |-> pos]
  ELSE LET x == DecScalar(base, bytes, pos) IN
    IF ~x.ok THEN Bad
    ELSE LET rest == DecSeq(base, bytes, x.next, n - 1) IN
      IF ~rest.ok THEN Bad
      ELSE [ok |-> TRUE, val |-> x.val \o rest.val, next |-> rest.next]

\* Deserialize of one field.
DecItem(kind, bytes, pos) ==
  IF pos + 1 > Len(bytes) THEN Bad
  ELSE IF IsVec(kind)
    THEN IF bytes[pos] = CborMajor.array
           THEN DecSeq(BaseOf(kind), bytes, pos + 2, bytes[pos + 1])
           ELSE Bad
  ELSE IF IsOpt(kind) /\ SubSeq(bytes, pos, pos + 1) = CborNull
    THEN [ok |-> TRUE, val |-> <<>>, next |-> pos + 2]
  ELSE DecScalar(BaseOf(kind), bytes, pos)

RECURSIVE DecFields(_, _, _, _)
DecFields(kinds, i, bytes, pos) ==
  IF i > Len(kinds) THEN [ok |-> TRUE, val |-> <<>>, next |-> pos]
  ELSE IF pos + 1 > Len(bytes) \/ SubSeq(bytes, pos, pos + 1) # <<CborMajor.text, i>>
    THEN Bad
  ELSE LET x == DecItem(kinds[i], bytes, pos + 2) IN
    IF ~x.ok THEN Bad
    ELSE LET rest == DecFields(kinds, i + 1, bytes, x.next) IN
      IF ~rest.ok THEN Bad
      ELSE [ok |-> TRUE, val |-> <<x.val>> \o rest.val, next |-> rest.next]

Undecodable == Msg("DecodeError", <<>>)

\* serde_cbor::from_slice into `enum`; bytes left over are an error.
from_slice(enum, bytes) ==
  IF Len(bytes) = 2 /\ bytes[1] = CborMajor.text
    THEN IF bytes[2] \in 1..Len(enum) /\ enum[bytes[2]][2].wrap = "unit"
           THEN Msg(enum[bytes[2]][1], <<>>)
           ELSE Undecodable
  ELSE IF Len(bytes) >= 4
          /\ SubSeq(bytes, 1, 3) = <<CborMajor.map, 1, CborMajor.text>>
          /\ bytes[4] \in 1..Len(enum)
    THEN LET shape == enum[bytes[4]][2]
             x == IF shape.wrap = "unit" THEN Bad
                  ELSE IF shape.wrap = "bare"
                    THEN LET y == DecItem(shape.fields[1], bytes, 5) IN
                           IF y.ok THEN [y EXCEPT !.val = <<y.val>>] ELSE Bad
                  ELSE IF Len(bytes) >= 6
                          /\ SubSeq(bytes, 5, 6) = <<CborMajor.map, Len(shape.fields)>>
                    THEN DecFields(shape.fields, 1, bytes, 7)
                    ELSE Bad
         IN IF x.ok /\ x.next = Len(bytes) + 1
              THEN Msg(enum[bytes[4]][1], x.val)
              ELSE Undecodable
  ELSE Undecodable

\* Representative values of a field: both truth values, two strings or
\* numbers, an Option absent and present, a Vec empty and not.
FieldValues(kind) ==
  IF kind = "bool" THEN {<<0>>, <<1>>}
  ELSE IF IsOpt(kind) THEN {<<>>, <<1>>}
  ELSE IF IsVec(kind) THEN {<<>>, <<1, 2>>}
  ELSE {<<1>>, <<2>>}

\* Every value of `enum` made of representative field values.
ValuesOf(enum) ==
  UNION {
    LET kinds == enum[k][2].fields IN
      {Msg(enum[k][1], b) :
         b \in {f \in [1..Len(kinds) -> {<<>>, <<0>>, <<1>>, <<2>>, <<1, 2>>}] :
                  \A i \in 1..Len(kinds) : f[i] \in FieldValues(kinds[i])}}
    : k \in 1..Len(enum)}

EnumOf(typ) == IF typ = "request" THEN MydiaRequest ELSE MydiaResponse

\* A request or response value is about to be encoded.
InitCodec ==
  /\ loopPc = "bind"
  /\ endpointOpen = FALSE
  /\ relay_connected = FALSE
  /\ events = <<>>
  /\ IdleHost
  /\ keypair_file = NoFile
  /\ LOG_TX = 0
  /\ \E typ \in {"request", "response"} :
       \E v \in ValuesOf(EnumOf(typ)) :
         codec = [typ |-> typ, stage |-> "value", value |-> v, bytes |-> <<>>,
                  decoded |-> Msg("None", <<>>)]

\* let data = serde_cbor::to_vec(&value).unwrap();
Serialize ==
  /\ codec.stage = "value"
  /\ codec' = [codec EXCEPT !.stage = "bytes",
                            !.bytes = to_vec(EnumOf(codec.typ), codec.value)]
  /\ UNCHANGED <<LOG_TX, replies, outReq, evRead, logged, reader_tasks, keypair_file, hosts,
                 hlsVars, loopVars, cmdVars, regVars, reqVars, events>>

\* let decoded = serde_cbor::from_slice(&data).unwrap();
Deserialize ==
  /\ codec.stage = "bytes"
  /\ codec' = [codec EXCEPT !.stage = "decoded",
                            !.decoded = from_slice(EnumOf(codec.typ), codec.bytes)]
  /\ UNCHANGED <<LOG_TX, replies, outReq, evRead, logged, reader_tasks, keypair_file, hosts,
                 hlsVars, loopVars, cmdVars, regVars, reqVars, events>>

NextCodec == Serialize \/ Deserialize

SpecCodec == InitCodec /\ [][NextCodec]_vars

\* C26: for every request variant and every response variant, with optional
\* fields present and absent, decoding the encoding of a value gives a value
\* equal to the original.
CodecRoundTrip ==
  codec.stage = "decoded" => codec.decoded = codec.value

\* An HlsStream request without a range and with an auth token has made the
\* round trip.
RoundTripSeen ==
  /\ codec.stage = "decoded"
  /\ codec.typ = "request"
  /\ codec.decoded = Msg("HlsStream", << <<1>>, <<2>>, <<>>, <<>>, <<1>> >>)
  /\ codec.bytes # <<>>

(* ------------------------------------------------------------------ *)
(* The event channel when it is full                                   *)
(* ------------------------------------------------------------------ *)
MaxLogs == 2
MaxReads == 2

\* ElixirLogLayer::on_event, called from whatever task logs: it builds the
\* Log event, try_sends it and returns.
LogEmit ==
  /\ logged < MaxLogs
  /\ logged' = logged + 1
  /\ events' = TrySend(events, LogEvent("info", 0))
  /\ UNCHANGED <<LOG_TX, codec, hosts, keypair_file, reader_tasks, replies, outReq, evRead, hlsVars, loopVars, cmdVars, regVars, reqVars>>

\* The embedder takes the oldest event off the channel.
EmbedderRecv ==
  /\ evRead < MaxReads
  /\ evRead < Len(events)
  /\ evRead' = evRead + 1
  /\ UNCHANGED <<LOG_TX, codec, hosts, keypair_file, reader_tasks, replies, outReq, logged, hlsVars, loopVars, cmdVars, regVars, reqVars,
                 events>>

ClientSendAny ==
  ClientSendFrame({Encode(Msg("Pairing", 1)), Encode(Msg("HlsStream", 1))})

\* The loop is in select! with p1 and p2 connected; the embedder has taken no
\* event yet, and logging has filled the channel up.
InitEv ==
  /\ loopPc = "select"
  /\ endpointOpen = TRUE
  /\ relay_connected = TRUE
  /\ events = <<Event("Connected", "p1", 1, "Relay", 0, 0),
               Event("Connected", "p2", 2, "Relay", 0, 0)>>
              \o Repeat(LogEvent("info", 0), EventCapacity - 2)
  /\ connected_peers = {<<"p1", 1>>, <<"p2", 2>>}
  /\ conns = <<NewConn("p1", {"relay"}), NewConn("p2", {"relay"})>>
  /\ cmdOpen = TRUE
  /\ cmdq = <<>>
  /\ cmdsIssued = 0
  /\ lastStats = NoStats
  /\ pathChanges = 0
  /\ streams = <<>>
  /\ pending_responses = {}
  /\ hls_streams = {}
  /\ nextId = 1
  /\ hlsOp = NoOp
  /\ hlsCalls = <<>>
  /\ replies = <<>>
  /\ outReq = NoOut
  /\ evRead = 0
  /\ logged = 0
  /\ reader_tasks = 0
  /\ keypair_file = NoFile
  /\ hosts = <<>>
  /\ codec = NoCodec
  /\ LOG_TX = 1

NextEv ==
  \/ LogEmit
  \/ EmbedderRecv
  \/ ClientSendAny
  \/ HandleStream
  \/ EventSendCompletes
  \/ ReplyTimeout

SpecEv == InitEv /\ [][NextEv]_vars

\* The events of type Log sent so far.
LogEvents(ev) == {i \in 1..Len(ev) : ev[i].type = "Log"}

\* The events that announce stream n.
AnnouncementsOf(n) ==
  {i \in 1..Len(events) : events[i] = Announcement(n, streams[n])}

\* C18: with the event channel full (100 events), a Log event is dropped and
\* its producer goes on at once, while a RequestReceived or HlsStreamRequest
\* is never dropped: its producer stays in the send until the embedder has
\* taken an event, and then the event is delivered, once.
FullChannelDropsOnlyLogs ==
  /\ [](/\ InChannel <= EventCapacity
        /\ (InChannel = EventCapacity /\ logged < MaxLogs) => ENABLED LogEmit
        /\ \A n \in 1..Len(streams) :
             /\ streams[n].st = "send" =>
                  /\ AnnouncementsOf(n) = {}
                  /\ InChannel < EventCapacity => ENABLED EventSendCompletes
             /\ streams[n].st \in {"wait", "hls", "timeout", "done"} /\ streams[n].id # 0
                  => Cardinality(AnnouncementsOf(n)) = 1)
  /\ [][/\ (logged' # logged /\ InChannel = EventCapacity) =>
             /\ events' = events
             /\ streams' = streams
        /\ \A n \in 1..Len(streams) :
             (streams[n].st = "send" /\ InChannel = EventCapacity) =>
               streams'[n].st = "send"
        /\ \A i \in 1..Len(events) :
             /\ Len(events') >= Len(events)
             /\ events'[i] = events[i]]_vars

\* With the channel full a Log call has returned with its event dropped; a
\* request that had to wait was announced after the embedder took an event,
\* and a second one is waiting in its send.
FullChannelSeen ==
  /\ InChannel = EventCapacity
  /\ logged > 0
  /\ Cardinality(LogEvents(events)) = EventCapacity - 2
  /\ \E n, m \in 1..Len(streams) :
       /\ streams[n].st \in {"wait", "hls"}
       /\ AnnouncementsOf(n) = {EventCapacity + 1}
       /\ streams[m].st = "send"

(* ------------------------------------------------------------------ *)
(* The start of the loop, accept, dial and get_node_addr               *)
(* ------------------------------------------------------------------ *)
\* endpoint.addr(): the address of this host's endpoint.
SelfId == "p0"
endpoint_addr == [id |-> SelfId]

endpoint_addr_to_json_empty(a) == [form |-> "", id |-> "-"]

\* serde_json::to_string(addr).unwrap_or_default().
endpoint_addr_to_json(a) == [form |-> "blob", id |-> a.id]

\* The String that get_node_addr returns, as a reply record.
AddrReply(text) == Reply("GetNodeAddr", TRUE, text.form, text.id, NoMsg)

\* String::new().
EmptyString == [form |-> "", id |-> "-"]

\* Host::get_node_addr: the command is queued for the loop, or the loop is
\* gone and the empty string comes back at once.
HostGetNodeAddr ==
  /\ \/ Enqueue(Cmd("GetNodeAddr", NoAddr, 0, NoMsg)) /\ UNCHANGED replies
     \/ SendFails(AddrReply(EmptyString))
  /\ UNCHANGED <<LOG_TX, codec, hosts, keypair_file, reader_tasks, outReq, evRead, logged, hlsVars, loopVars, cmdOpen, lastStats,
                 regVars, reqVars, events>>

\* Command::GetNodeAddr.
GetNodeAddr ==
  /\ Receive("GetNodeAddr")
  /\ replies' = Append(replies, AddrReply(endpoint_addr_to_json(endpoint_addr)))
  /\ UNCHANGED <<LOG_TX, codec, hosts, keypair_file, reader_tasks, outReq, evRead, logged, hlsVars, loopVars, cmdOpen, cmdsIssued,
                 lastStats, regVars, reqVars, events>>

NextAddr ==
  \/ Bind
  \/ RelayWait
  \/ Accept
  \/ HostGetNodeAddr
  \/ GetNodeAddr
  \/ HostDial
  \/ handle_dial
  \/ HostDrop
  \/ EndpointClose
  \/ LoopTerminate

SpecAddr == Init /\ [][NextAddr]_vars

ReadyEmitted == \E i \in 1..Len(events) : events[i] = ReadyEvent

\* The replies to get_node_addr so far.
AddrReplies == {i \in 1..Len(replies) : replies[i].kind = "GetNodeAddr"}

\* C19: a get_node_addr issued before Ready does not panic: it stays blocked
\* until the loop is in select!, or returns the empty string when the loop is
\* gone; every get_node_addr the loop handles is handled after Ready and
\* returns a non-empty blob that decodes to this host's endpoint address.
NodeAddrOnlyAfterReady ==
  /\ [](\A i \in AddrReplies :
          \/ /\ replies[i] = AddrReply(EmptyString)
             /\ loopPc = "terminated"
          \/ /\ replies[i].tag # ""
             /\ endpoint_addr_from_json([form |-> replies[i].tag, id |-> replies[i].id])
                  = [ok |-> TRUE, id |-> endpoint_addr.id]
             /\ ReadyEmitted)
  /\ [][/\ (loopPc \in {"bind", "relay_wait"} /\ loopPc' # "terminated")
             => replies' = replies /\ Len(cmdq') >= Len(cmdq)
        /\ (/\ cmdq # <<>> /\ Head(cmdq).kind = "GetNodeAddr"
            /\ cmdq' = Tail(cmdq) /\ loopPc' # "terminated")
             => /\ ReadyEmitted
                /\ Len(replies') = Len(replies) + 1
                /\ replies'[Len(replies')].kind = "GetNodeAddr"
                /\ replies'[Len(replies')].tag # ""]_vars

\* Two get_node_addr calls have been made; the loop, in select! after Ready,
\* has answered the first with the blob and the second is still queued.
NodeAddrReturned ==
  /\ loopPc = "select"
  /\ cmdsIssued = 2
  /\ Len(cmdq) = 1 /\ cmdq[1].kind = "GetNodeAddr"
  /\ replies = <<AddrReply(endpoint_addr_to_json(endpoint_addr))>>
  /\ events = <<ReadyEvent>>

\* The error of a failed bind has been logged.
BindFailed == \E i \in 1..Len(events) : events[i] = BindErrorLog

\* C20: if the endpoint cannot bind, the loop logs the error and terminates:
\* it emits no Ready, RelayConnected, Connected, Disconnected or request
\* event, registers nothing and handles no command (the embedder's calls
\* only fail).
BindFailureEndsLoop ==
  /\ [](BindFailed =>
          /\ loopPc = "terminated"
          /\ \A i \in 1..Len(events) : events[i].type = "Log"
          /\ connected_peers = {} /\ conns = <<>>
          /\ cmdq = <<>> /\ lastStats = NoStats
          /\ \A i \in 1..Len(replies) :
               \/ ~replies[i].ok /\ replies[i].tag \in {"send_failed", "recv_failed"}
               \/ replies[i] = AddrReply(EmptyString))
  /\ [][/\ (loopPc = "bind" /\ ~endpointOpen' /\ loopPc' # "bind")
             => events' = <<BindErrorLog>> /\ loopPc' = "terminated"
        /\ BindFailed => UNCHANGED <<loopVars, events, cmdq, regVars, reqVars>>]_vars

\* The bind has failed: a Dial that was queued has come back with an error
\* and a get_node_addr made afterwards with the empty string, and only the
\* log event was emitted.
BindFailureSeen ==
  /\ BindFailed
  /\ replies = <<Reply("Dial", FALSE, "recv_failed", "p2", NoMsg),
                 AddrReply(EmptyString)>>

(* ------------------------------------------------------------------ *)
(* RelayConnected, Ready and the relay flag of the statistics          *)
(* ------------------------------------------------------------------ *)
NextStart ==
  \/ Bind
  \/ RelayWait
  \/ Accept
  \/ HostDial
  \/ handle_dial
  \/ HostGetNetworkStats
  \/ GetNetworkStats
  \/ HostDrop
  \/ EndpointClose
  \/ LoopTerminate

SpecStart == Init /\ [][NextStart]_vars

\* The places of the events of type t.
EventsOfType(t) == {i \in 1..Len(events) : events[i].type = t}

\* C35: after a successful bind Ready is emitted exactly once, whether the
\* relay wait succeeded or timed out, and before any connection is accepted
\* or command handled; RelayConnected is emitted at most once, only when the
\* relay wait succeeded, and then before Ready; the relay_connected flag that
\* GetNetworkStats reports equals whether RelayConnected was emitted, and
\* never changes afterwards.
ReadyOnceAfterRelayWait ==
  /\ [](/\ Cardinality(EventsOfType("Ready")) =
             IF loopPc \in {"bind", "relay_wait"} \/ BindFailed
               THEN 0 ELSE 1
        /\ loopPc \in {"select", "hls", "request"} => ReadyEmitted
        /\ Cardinality(EventsOfType("RelayConnected")) = IF relay_connected THEN 1 ELSE 0
        /\ \A i \in EventsOfType("RelayConnected"), j \in EventsOfType("Ready") : i < j
        /\ \A i \in EventsOfType("Connected"), j \in EventsOfType("Ready") : j < i
        /\ conns # <<>> \/ connected_peers # {} \/ lastStats # NoStats => ReadyEmitted
        /\ \A i \in 1..Len(replies) : replies[i].tag \notin {"send_failed", "recv_failed"} => ReadyEmitted)
  /\ [][/\ ReadyEmitted => relay_connected' = relay_connected
        /\ (loopPc = "select" /\ cmdq # <<>> /\ cmdq' = Tail(cmdq)) => ReadyEmitted
        /\ lastStats' # lastStats =>
             /\ lastStats'.relay_connected = (EventsOfType("RelayConnected") # {})
             /\ lastStats # NoStats => lastStats'.relay_connected = lastStats.relay_connected]_vars

\* The relay wait timed out: Ready was emitted without RelayConnected, a peer
\* was accepted afterwards, and the statistics report one peer and no relay.
ReadyWithoutRelay ==
  /\ loopPc = "select"
  /\ EventsOfType("RelayConnected") = {}
  /\ Len(events) = 2 /\ events[1] = ReadyEvent /\ events[2].type = "Connected"
  /\ lastStats = NetworkStats(1, FALSE)
  /\ cmdsIssued = 2 /\ cmdq = <<>>

(* ------------------------------------------------------------------ *)
(* The log sink of a process with several hosts                        *)
(* ------------------------------------------------------------------ *)
\* The thread Host::new spawned for host h runs the first line of
\* run_event_loop.
LoopStart ==
  /\ \E h \in 1..Len(hosts) :
       /\ hosts[h].loop = "spawned"
       /\ init_tracing(h)
       /\ hosts' = [hosts EXCEPT ![h].loop = "running"]
  /\ UNCHANGED <<codec, keypair_file, replies, outReq, evRead, logged, reader_tasks,
                 hlsVars, loopVars, cmdVars, regVars, reqVars, events>>

\* The loop of host h sends Ready on its own event channel.
HostReady ==
  /\ \E h \in 1..Len(hosts) :
       /\ hosts[h].loop = "running"
       /\ hosts' = [hosts EXCEPT ![h].loop = "select",
                                 ![h].events = Append(@, ReadyEvent)]
  /\ UNCHANGED <<LOG_TX, codec, keypair_file, replies, outReq, evRead, logged, reader_tasks,
                 hlsVars, loopVars, cmdVars, regVars, reqVars, events>>

\* ElixirLogLayer::on_event for a record made on the runtime of host h; the
\* record names h.
on_event ==
  /\ logged < MaxLogs
  /\ logged' = logged + 1
  /\ \E h \in 1..Len(hosts) :
       /\ hosts[h].loop \in {"running", "select"}
       /\ hosts' = IF LOG_TX # 0
                     THEN [hosts EXCEPT ![LOG_TX].events = TrySend(@, LogEvent("info", h))]
                     ELSE hosts
  /\ UNCHANGED <<LOG_TX, codec, keypair_file, replies, outReq, evRead, reader_tasks,
                 hlsVars, loopVars, cmdVars, regVars, reqVars, events>>

\* Host::new with the keypair path of a file an earlier run has written.
HostNewLoaded == HostNew /\ hosts'[Len(hosts')].path = "p"

\* No host has been made yet; the key file is there.
InitLog ==
  /\ loopPc = "bind"
  /\ endpointOpen = FALSE
  /\ relay_connected = FALSE
  /\ events = <<>>
  /\ IdleHost
  /\ keypair_file = File(Key(1))
  /\ codec = NoCodec
  /\ LOG_TX = 0

NextLog ==
  \/ HostNewLoaded
  \/ LoopStart
  \/ HostReady
  \/ on_event

SpecLog == InitLog /\ [][NextLog]_vars

\* C36: the process-wide log sink is installed at most once: once the loop of
\* one host has installed it, no further host replaces it, every Log event,
\* those made by later hosts' loops as well, goes to the event channel of the
\* host that installed it and to no other, and the later hosts receive no Log
\* event.
LogSinkInstalledOnce ==
  /\ [](/\ LOG_TX \in 0..Len(hosts)
        /\ LOG_TX # 0 <=> \E h \in 1..Len(hosts) : hosts[h].loop # "spawned"
        /\ \A h \in 1..Len(hosts) : h # LOG_TX => LogEvents(hosts[h].events) = {})
  /\ [][/\ LOG_TX # 0 => LOG_TX' = LOG_TX
        /\ logged' > logged =>
             /\ LOG_TX # 0
             /\ hosts'[LOG_TX].events # hosts[LOG_TX].events
             /\ LogEvents(hosts'[LOG_TX].events) =
                  LogEvents(hosts[LOG_TX].events) \cup {Len(hosts'[LOG_TX].events)}
             /\ \A h \in 1..Len(hosts) :
                  h # LOG_TX => hosts'[h].events = hosts[h].events]_vars

\* Two hosts run; the second one to start has sent its Ready, got no Log
\* event, and a record of its loop sits in the channel of the first.
LaterHostLogsToFirst ==
  \E f, g \in 1..Len(hosts) :
    /\ f # g /\ LOG_TX = f
    /\ hosts[g].loop = "select" /\ hosts[g].events = <<ReadyEvent>>
    /\ \E i \in 1..Len(hosts[f].events) : hosts[f].events[i] = LogEvent("info", g)

(* ------------------------------------------------------------------ *)
(* Two hosts that send each other a request at the same time           *)
(* ------------------------------------------------------------------ *)
\* The peer p1 is a host of this program.  Its loop is inside its own
\* SendRequest while a stream it opened here awaits its result (Busy), and
\* the request this host sent to it is answered either by its reply task when
\* 30 s have passed, or by its loop when that handles the SendResponse of its
\* embedder.
RemoteReplyTimeout == RemoteAnswerFrom({Encode(TimeoutResponse)}, {})

RemoteSendResponse ==
  /\ loopPc = "request"
  /\ ~Busy(conns[outReq.conn].peer)
  /\ RemoteAnswerFrom({Encode(Msg("Pairing", 1))}, {})

\* This host's loop is inside handle_send_request for a Pairing request to
\* p1, and the Pairing request p1 sent at the same time has just arrived.
InitCross ==
  /\ loopPc = "request"
  /\ endpointOpen = TRUE
  /\ relay_connected = TRUE
  /\ cmdOpen = TRUE
  /\ cmdq = <<>>
  /\ cmdsIssued = 1
  /\ lastStats = NoStats
  /\ connected_peers = {<<"p1", 1>>}
  /\ conns = <<NewConn("p1", {"relay"})>>
  /\ pathChanges = 0
  /\ streams = <<NewStream(1, Encode(Msg("Pairing", 1)))>>
  /\ pending_responses = {}
  /\ hls_streams = {}
  /\ nextId = 1
  /\ events = <<Event("Connected", "p1", 1, "Relay", 0, 0)>>
  /\ hlsOp = NoOp
  /\ hlsCalls = <<>>
  /\ replies = <<>>
  /\ outReq = [kind |-> "SendRequest", conn |-> 1, frame |-> Encode(Msg("Pairing", 1)),
               answered |-> FALSE, answer |-> <<>>]
  /\ evRead = 0
  /\ logged = 0
  /\ reader_tasks = 0
  /\ keypair_file = NoFile
  /\ hosts = <<>>
  /\ codec = NoCodec
  /\ LOG_TX = 1

NextCross ==
  \/ HandleStream
  \/ HostSendResponse
  \/ SendResponse
  \/ ReplyDeliver
  \/ ReplyTimeout
  \/ RemoteReplyTimeout
  \/ RemoteSendResponse
  \/ handle_send_request_read
  \/ ClientReadResponse
  \/ ClientSendRequest

SpecCross == InitCross /\ [][NextCross]_vars

\* The loop and the tasks of both hosts are scheduled, and timers fire.
FairSpecCross ==
  /\ SpecCross
  /\ WF_vars(HandleStream) /\ WF_vars(SendResponse)
  /\ WF_vars(ReplyDeliver) /\ WF_vars(ReplyTimeout)
  /\ WF_vars(RemoteReplyTimeout) /\ WF_vars(handle_send_request_read)
  /\ WF_vars(ClientReadResponse)

TimeoutResult == Result("ok", TimeoutResponse)

TimeoutReply == Reply("SendRequest", TRUE, "ok", "p1", TimeoutResponse)

\* Both requests are in flight and unanswered: this loop awaits the reply to
\* its request, and so does the loop of the peer for its request on stream s,
\* for which no response has been handed over.
Crossed(s) ==
  /\ loopPc = "request" /\ ~outReq.answered
  /\ streams[s].result.kind = "pending"
  /\ streams[s].out = <<>> /\ streams[s].slot = NoMsg
  /\ ~IsPing(Decode(streams[s].frame, RequestVariants))

CrossedRequestsReturn ==
  <>(replies # <<>> /\ streams[1].result.kind # "pending")

(* ------------------------------------------------------------------ *)
(* How many responses a request gets                                   *)
(* ------------------------------------------------------------------ *)
\* What the embedder may answer request id with: its calls need not agree.
EmbedderAnswers(id) == {Msg("Pairing", id), Msg("Error", 2)}

\* Host::send_response, called for a request any number of times, before and
\* after its timeout.
HostSendResponseAgain ==
  /\ \E id \in KnownIds :
       \E r \in EmbedderAnswers(id) : Enqueue(Cmd("SendResponse", NoAddr, id, r))
  /\ UNCHANGED <<hostVars, hlsVars, loopVars, cmdOpen, lastStats, regVars, reqVars, events>>

NextOnce ==
  \/ ClientSendRequest
  \/ ClientReadResponse
  \/ HandleStream
  \/ HostSendResponseAgain
  \/ SendResponse
  \/ ReplyDeliver
  \/ ReplyTimeout
  \/ ConnectionClose

SpecOnce == InitOneConn /\ [][NextOnce]_vars

\* C39: at most one response frame is ever written to the stream of an
\* inbound non-streaming request, however the embedder's SendResponse calls
\* (repeated ones, late ones) and the 30 s timeout interleave: what the peer
\* receives is the first response handed over, or the timeout error, never
\* both and never two responses.
AtMostOneResponse ==
  /\ [](\A s \in 1..Len(streams) :
          /\ streams[s].out \in
               {<<>>, Encode(Pong), Encode(TimeoutResponse)}
                 \cup {Encode(r) : r \in EmbedderAnswers(streams[s].id)}
          /\ streams[s].slot # NoMsg =>
               /\ streams[s].out \in {<<>>, Encode(streams[s].slot)}
               /\ streams[s].result.kind = "ok" => streams[s].result.resp = streams[s].slot
          /\ streams[s].st = "timeout" =>
               /\ streams[s].out \in {<<>>, Encode(TimeoutResponse)}
               /\ streams[s].result.kind = "ok" => streams[s].result.resp = TimeoutResponse)
  /\ [][\A s \in 1..Len(streams) :
          /\ streams[s].out # <<>> => streams'[s].out = streams[s].out
          /\ streams[s].slot # NoMsg => streams'[s].slot = streams[s].slot
          /\ streams[s].st = "timeout" => streams'[s].slot = NoMsg]_vars

\* A request has timed out and its peer has read the timeout error; two
\* SendResponse calls for it came afterwards, the first of which took the
\* stale entry out of the table, and neither has written anything.
LateResponsesWriteNothing ==
  /\ Len(streams) = 1 /\ streams[1].st = "timeout"
  /\ streams[1].out = Encode(TimeoutResponse)
  /\ streams[1].result = Result("ok", TimeoutResponse)
  /\ cmdsIssued = 2 /\ cmdq = <<>> /\ pending_responses = {}

(* ------------------------------------------------------------------ *)
(* The table entry of a request the embedder has been told of          *)
(* ------------------------------------------------------------------ *)
\* The event channel is almost full; requests and server-push requests come
\* in, and the embedder answers what it has been told of as soon as it can.
NextSeen ==
  \/ LogEmit
  \/ EmbedderRecv
  \/ ClientSendAny
  \/ HandleStream
  \/ EventSendCompletes
  \/ ReplyTimeout
  \/ ReplyDeliver
  \/ HostSendResponse
  \/ SendResponse
  \/ HostSendHlsHeader
  \/ HostFinishHlsStream
  \/ SendHlsHeader
  \/ FinishHlsStream
  \/ HlsWrite

\* The loop is in select! with p1 connected; the embedder has taken no event
\* yet, and logging has filled the channel up.
InitSeen ==
  /\ loopPc = "select"
  /\ endpointOpen = TRUE
  /\ relay_connected = TRUE
  /\ events = <<Event("Connected", "p1", 1, "Relay", 0, 0)>>
              \o Repeat(LogEvent("info", 0), EventCapacity - 1)
  /\ connected_peers = {<<"p1", 1>>}
  /\ conns = <<NewConn("p1", {"relay"})>>
  /\ cmdOpen = TRUE
  /\ cmdq = <<>>
  /\ cmdsIssued = 0
  /\ lastStats = NoStats
  /\ pathChanges = 0
  /\ streams = <<>>
  /\ pending_responses = {}
  /\ hls_streams = {}
  /\ nextId = 1
  /\ hlsOp = NoOp
  /\ hlsCalls = <<>>
  /\ replies = <<>>
  /\ outReq = NoOut
  /\ evRead = 0
  /\ logged = 0
  /\ reader_tasks = 0
  /\ keypair_file = NoFile
  /\ hosts = <<>>
  /\ codec = NoCodec
  /\ LOG_TX = 1

SpecSeen == InitSeen /\ [][NextSeen]_vars

\* Stream n has been announced on the event channel with event type t.
OnChannel(n, t) ==
  \E i \in 1..Len(events) : events[i].type = t /\ events[i].stream = n

\* The embedder has called finish_hls_stream for id.
FinishCalled(id) ==
  \E i \in 1..Len(hlsCalls) : hlsCalls[i].kind = "FinishHlsStream" /\ hlsCalls[i].id = id

\* C40: when RequestReceived{request_id} (HlsStreamRequest{stream_id}) is on
\* the event channel, the pending-response table (the stream table) already
\* holds that id, so a SendResponse (SendHlsHeader) issued at once on receipt
\* finds its entry, as long as the timeout has not fired and no response was
\* handed over (as long as the stream has not been finished).
EntryBeforeEvent ==
  /\ [](\A n \in 1..Len(streams) :
          /\ (OnChannel(n, "RequestReceived") /\ streams[n].st = "wait"
                /\ streams[n].slot = NoMsg)
               => <<streams[n].id, n>> \in pending_responses
          /\ (OnChannel(n, "HlsStreamRequest") /\ ~FinishCalled(streams[n].id))
               => <<streams[n].id, n>> \in hls_streams
          /\ streams[n].st = "send" =>
               <<streams[n].id, n>> \in pending_responses \cup hls_streams)
  /\ [][/\ \A n \in 1..Len(streams) :
             (/\ SendResponseHandled
              /\ Head(cmdq).id = streams[n].id
              /\ streams[n].st = "wait" /\ streams[n].slot = NoMsg)
             => streams'[n].slot = Head(cmdq).resp
        /\ (HlsTaken("SendHlsHeader") /\ ~FinishCalled(Head(cmdq).id))
             => /\ loopPc' = "hls"
                /\ streams[hlsOp'.stream].id = Head(cmdq).id]_vars

\* With the channel full a request waited in the send of its event, its entry
\* already in the table; the embedder took an event, the request was
\* announced, and the SendResponse issued on it has found the entry.
AnsweredOnReceipt ==
  /\ Len(events) = EventCapacity + 1 /\ evRead >= 1
  /\ \E n \in 1..Len(streams) :
       /\ events[Len(events)].type = "RequestReceived"
       /\ events[Len(events)].stream = n
       /\ streams[n].slot \in EmbedderResponses(streams[n].id)
       /\ <<streams[n].id, n>> \notin pending_responses

====
